---------------------------- MODULE Spec2Model ----------------------------
(***************************************************************************)
(* Model of the document segmentation / chunking pipeline and of the       *)
(* retrieval and context-assembly pipeline of Research_Assistant.          *)
(*                                                                         *)
(* Text is a sequence of one-character strings.  Offsets are 0-based, as   *)
(* in Python: the slice s[a:b] is Slice(s, a, b).                          *)
(***************************************************************************)
EXTENDS Integers, Sequences, FiniteSets, TLC

VARIABLES
    \* ---- document pipeline (pdf_chunker.py, chunker4.py, chunker.py) ----
    impl,           \* which program runs: "pdf_chunker" | "chunker4" |
                    \* "chunker" | "chunker2"
    pages,          \* parser output: sequence of [page_id, text, tables]
    config,         \* chunker.py ChunkingConfig: [max_tokens, overlap_tokens]
    pc,             \* position in the pipeline
    full_text,      \* concatenate_page_texts: the concatenated text
    page_indices,   \* concatenate_page_texts: [page_id, start_index, end_index]
    sections,       \* the structural runs handed to the bounded chunker
    scan,           \* chunker4 line scan: the loop variables of
                    \* identify_boundaries_and_paragraphs
    chunks,         \* the chunk list
    bound_once,     \* the chunk list as returned by the first process_tables
    \* ---- query reformulation (query_reformulation.py) ----
    original_query, \* the user's query
    num_queries,    \* the num_queries argument
    model_reply,    \* what the text-generation collaborator does when called
    search_queries, \* the list generate_search_queries returns
    q_pc,           \* "start" before the call, "done" after it
    \* ---- budget selector (document_service.select_top_chunks) ----
    ranked_chunks,  \* the chunks argument
    max_tokens,     \* the max_tokens argument
    top_chunks,     \* the list select_top_chunks returns
    s_pc,           \* "start" before the call, "done" after it
    \* ---- candidate aggregation (document_service.py, book_service.py) ----
    aggregator,     \* "project" | "v2" | "v2_selected" | "book": which
                    \* aggregator runs
    top_k,          \* the top_k argument
    a_pc,           \* position in the aggregator
    qi,             \* number of search queries the loop has gone through
    all_chunks,     \* the candidate list
    total_chunks_count,
    retrieved,      \* history: the candidates the search calls have returned
    failed_calls,   \* history: number of search calls that raised
    fanout,         \* history: the candidates the fan-out queries returned
    synthesis_calls,\* history: number of searches of the synthesis query
    stages,         \* history: the retrieval stages run, [stage, produced]
    context,        \* the returned context text
    \* ---- ingestion (pdf_embedder.py, document_service.store_pdf_content) ----
    clock,          \* int(time.time())
    store,          \* the rows of the sources table
    runs,           \* history: the ingestion runs, [document_id, timestamp, n]
    \* ---- selected-documents filter (document_service.py) ----
    filter_path,    \* which filtering loop runs
    selected_document_ids,
    response_data,  \* the rows the search returned
    filtered_chunks,\* the rows the loop kept
    f_pc,           \* "start" before the loop, "done" after it
    \* ---- paragraph splitter (chunker4.py, chunker3.py) ----
    splitter,       \* "chunker4" | "chunker3": whose split_into_paragraph_chunks
    big_paragraph,  \* the text argument: one paragraph
    sub_chunks,     \* the list split_into_paragraph_chunks returns
    sp_pc,          \* "start" before the call, "done" after it
    \* ---- token-window chunker (contextualize.py, chunker.py) ----
    windower,       \* "chunk_text_tokens" | "process_table_data"
    w_text,         \* chunk_text_tokens: the text argument
    w_table,        \* process_table_data: the table argument
    w_config,       \* [max_tokens, overlap_tokens]
    w_chunks,       \* the list the call returns
    w_pc,           \* "start" before the call, "done" after it
    \* ---- collaborator retry loops (utils.py, contextualize4.py, embed.py) ----
    retry_fn,       \* "get_raw_response" | "_fetch_ollama_response" |
                    \* "get_embeddings"
    max_retries,    \* config.max_retries / MAX_RETRIES
    attempt,        \* the loop variable
    r_pc,           \* "top" | "sleep" | "post" | "done"
    r_log,          \* history: the requests posted and the cooldowns slept
    r_result,       \* what the call returns
    \* ---- ranking (document_service.rank_chunks_by_relevance) ----
    rk_chunks,      \* the chunks argument
    rk_embedder,    \* what generate_embeddings(query) does: "ok" | "raises"
    rk_result,      \* the list the call returns
    rk_pc,          \* "start" before the call, "done" after it
    \* ---- the /ingest request (routes.py, pdf_ingestion_service.py,
    \*      pdf_embedder.py) ----
    sv_request,     \* [pdf, process_type, project_id, custom_document_name,
                    \*  simple_mode]
    sv_pc,          \* position in the request
    sv_raised,      \* history: status of the HTTPException raised in the route
    sv_failed,      \* history: the collaborator calls that raised
    sv_num_chunks,  \* num_chunks of ingest_pdf
    sv_batches,     \* history: what each batch upsert did
    sv_insert_result,
    sv_success,     \* what PDFEmbedder.process returned
    sv_result,      \* the dict ingest_pdf returns
    sv_http,        \* the status the request is answered with
    \* ---- the paragraph windows of one section
    \*      (pdf_chunker.PDFChunker.create_contextual_chunks) ----
    pw_section,     \* the section: [name, text, start_index]
    pw_paragraph_indices,
    pw_i,           \* the window start i (0-based as in the code)
    pw_chunks,      \* the chunks appended so far
    pw_pc           \* "loop" | "done"

docVars == <<impl, pages, config, pc, full_text, page_indices, sections,
             scan, chunks, bound_once>>

queryVars == <<original_query, num_queries, model_reply, search_queries, q_pc>>

selectVars == <<ranked_chunks, max_tokens, top_chunks, s_pc>>

aggVars == <<aggregator, top_k, a_pc, qi, all_chunks, total_chunks_count,
             retrieved, failed_calls, fanout, synthesis_calls, stages, context>>

ingestVars == <<clock, store, runs>>

filterVars == <<filter_path, selected_document_ids, response_data,
                filtered_chunks, f_pc>>

splitVars == <<splitter, big_paragraph, sub_chunks, sp_pc>>

windowVars == <<windower, w_text, w_table, w_config, w_chunks, w_pc>>

retryVars == <<retry_fn, max_retries, attempt, r_pc, r_log, r_result>>

rankVars == <<rk_chunks, rk_embedder, rk_result, rk_pc>>

svcVars == <<sv_request, sv_pc, sv_raised, sv_failed, sv_num_chunks, sv_batches,
             sv_insert_result, sv_success, sv_result, sv_http>>

paraVars == <<pw_section, pw_paragraph_indices, pw_i, pw_chunks, pw_pc>>

vars == <<docVars, queryVars, selectVars, aggVars, ingestVars, filterVars, splitVars, windowVars, retryVars, rankVars, svcVars, paraVars>>

None == "None"

\* a component that takes no part in the run at hand
DocIdle ==
    /\ impl = None /\ pages = <<>> /\ config = None /\ pc = "idle"
    /\ full_text = <<>> /\ page_indices = <<>> /\ sections = <<>>
    /\ scan = None /\ chunks = <<>> /\ bound_once = <<>>

QueryIdle ==
    /\ original_query = <<>> /\ num_queries = 0 /\ model_reply = None
    /\ search_queries = <<>> /\ q_pc = "idle"

SelectIdle ==
    /\ ranked_chunks = <<>> /\ max_tokens = 0 /\ top_chunks = <<>>
    /\ s_pc = "idle"

AggIdle ==
    /\ aggregator = None /\ top_k = 0 /\ a_pc = "idle" /\ qi = 0
    /\ all_chunks = <<>> /\ total_chunks_count = 0 /\ retrieved = {}
    /\ failed_calls = 0 /\ fanout = {} /\ synthesis_calls = 0
    /\ stages = <<>>
    /\ context = <<>>

IngestIdle ==
    /\ clock = 0 /\ store = {} /\ runs = <<>>

FilterIdle ==
    /\ filter_path = None /\ selected_document_ids = <<>>
    /\ response_data = <<>> /\ filtered_chunks = <<>> /\ f_pc = "idle"

SplitIdle ==
    /\ splitter = None /\ big_paragraph = <<>> /\ sub_chunks = <<>> /\ sp_pc = "idle"

WindowIdle ==
    /\ windower = None /\ w_text = <<>> /\ w_table = None /\ w_config = None
    /\ w_chunks = <<>> /\ w_pc = "idle"

RetryIdle ==
    /\ retry_fn = None /\ max_retries = 0 /\ attempt = 0 /\ r_pc = "idle"
    /\ r_log = <<>> /\ r_result = None

RankIdle ==
    /\ rk_chunks = <<>> /\ rk_embedder = None /\ rk_result = <<>> /\ rk_pc = "idle"

NoResult == [status |-> "none", chunks_created |-> 0, chunks_embedded |-> 0]

SvcIdle ==
    /\ sv_request = None /\ sv_pc = "idle" /\ sv_raised = 0 /\ sv_failed = {}
    /\ sv_num_chunks = 0 /\ sv_batches = <<>> /\ sv_insert_result = FALSE
    /\ sv_success = FALSE /\ sv_result = NoResult /\ sv_http = 0

ParaIdle ==
    /\ pw_section = None /\ pw_paragraph_indices = <<>> /\ pw_i = 0
    /\ pw_chunks = <<>> /\ pw_pc = "idle"

(***************************************************************************)
(* Python string primitives                                                *)
(***************************************************************************)
Slice(s, a, b) == SubSeq(s, a + 1, b)

Min(a, b) == IF a < b THEN a ELSE b
Max(a, b) == IF a > b THEN a ELSE b

Upper == {"A", "B", "C", "D", "E", "F", "G", "H", "I", "J", "K", "L", "M",
          "N", "O", "P", "Q", "R", "S", "T", "U", "V", "W", "X", "Y", "Z"}
Lower == {"a", "b", "c", "d", "e", "f", "g", "h", "i", "j", "k", "l", "m",
          "n", "o", "p", "q", "r", "s", "t", "u", "v", "w", "x", "y", "z"}
Digit == {"0", "1", "2", "3", "4", "5", "6", "7", "8", "9"}
Whitespace == {" ", "\n"}
\* the punctuation listed in both SECTION_PATTERN character classes
HeaderPunct == {".", ",", ":", ";", "!", "?", "(", ")", "-"}
SentenceEnd == {".", "!", "?"}

RECURSIVE Concat(_)
Concat(ss) == IF ss = <<>> THEN <<>> ELSE Head(ss) \o Concat(Tail(ss))

RECURSIVE SumLen(_)
SumLen(ss) == IF ss = <<>> THEN 0 ELSE Len(Head(ss)) + SumLen(Tail(ss))

\* sep.join(ss)
RECURSIVE Join(_, _)
Join(ss, sep) ==
    IF ss = <<>> THEN <<>>
    ELSE IF Len(ss) = 1 THEN ss[1]
    ELSE ss[1] \o sep \o Join(Tail(ss), sep)

\* s.strip()
RECURSIVE LStrip(_)
LStrip(s) ==
    IF s # <<>> /\ s[1] \in Whitespace THEN LStrip(Tail(s)) ELSE s

RECURSIVE RStrip(_)
RStrip(s) ==
    IF s # <<>> /\ s[Len(s)] \in Whitespace
    THEN RStrip(SubSeq(s, 1, Len(s) - 1)) ELSE s

Strip(s) == RStrip(LStrip(s))

StartsWith(s, pre) ==
    Len(s) >= Len(pre) /\ SubSeq(s, 1, Len(pre)) = pre

\* needle in hay
Contains(hay, needle) ==
    \E k \in 0..(Len(hay) - Len(needle)) :
        Slice(hay, k, k + Len(needle)) = needle

\* hay.find(needle, start): lowest offset >= start, or -1
Find(hay, needle, start) ==
    LET hits == {k \in start..(Len(hay) - Len(needle)) :
                    Slice(hay, k, k + Len(needle)) = needle}
    IN IF hits = {} THEN -1
       ELSE CHOOSE k \in hits : \A m \in hits : k <= m

\* s.split(sep) for a one-character separator
RECURSIVE SplitOn(_, _)
SplitOn(s, sep) ==
    LET k == Find(s, <<sep>>, 0)
    IN IF k = -1 THEN <<s>>
       ELSE <<Slice(s, 0, k)>> \o SplitOn(Slice(s, k + 1, Len(s)), sep)

\* s.splitlines(True): cut after every line terminator
RECURSIVE SplitLines(_)
SplitLines(s) ==
    IF s = <<>> THEN <<>>
    ELSE LET nl == Find(s, <<"\n">>, 0)
         IN IF nl = -1 THEN <<s>>
            ELSE <<Slice(s, 0, nl + 1)>>
                     \o SplitLines(Slice(s, nl + 1, Len(s)))

\* length of the run of characters of class cls starting at offset k
RECURSIVE RunLen(_, _, _)
RunLen(s, k, cls) ==
    IF k < Len(s) /\ s[k + 1] \in cls THEN 1 + RunLen(s, k + 1, cls) ELSE 0

\* re.split(r'\n\n+', s): cut at every maximal run of two or more newlines
RECURSIVE SplitParagraphsFrom(_, _, _)
SplitParagraphsFrom(s, from, k) ==
    IF k >= Len(s) THEN <<Slice(s, from, Len(s))>>
    ELSE LET r == RunLen(s, k, {"\n"})
         IN IF r >= 2
            THEN <<Slice(s, from, k)>> \o SplitParagraphsFrom(s, k + r, k + r)
            ELSE SplitParagraphsFrom(s, from, k + Max(r, 1))

SplitParagraphs(s) == SplitParagraphsFrom(s, 0, 0)

\* re.split(r'(?<=[.!?])\s+', s): cut at every whitespace run that follows
\* a sentence-ending character
RECURSIVE SplitSentencesFrom(_, _, _)
SplitSentencesFrom(s, from, k) ==
    IF k >= Len(s) THEN <<Slice(s, from, Len(s))>>
    ELSE LET r == RunLen(s, k, Whitespace)
         IN IF r >= 1 /\ k >= 1 /\ s[k] \in SentenceEnd
            THEN <<Slice(s, from, k)>> \o SplitSentencesFrom(s, k + r, k + r)
            ELSE SplitSentencesFrom(s, from, k + Max(r, 1))

SplitSentences(s) == SplitSentencesFrom(s, 0, 0)

\* s.split(): the whitespace-separated words
RECURSIVE WordLen(_, _)
WordLen(s, k) ==
    IF k < Len(s) /\ s[k + 1] \notin Whitespace THEN 1 + WordLen(s, k + 1) ELSE 0

RECURSIVE SplitWordsFrom(_, _)
SplitWordsFrom(s, k) ==
    IF k >= Len(s) THEN <<>>
    ELSE LET r == RunLen(s, k, Whitespace)
         IN IF r >= 1 THEN SplitWordsFrom(s, k + r)
            ELSE LET w == WordLen(s, k)
                 IN <<Slice(s, k, k + w)>> \o SplitWordsFrom(s, k + w)

SplitWords(s) == SplitWordsFrom(s, 0)


(***************************************************************************)
(* Header patterns.  Each is applied with .match() to a stripped line,     *)
(* which holds no line terminator.                                         *)
(***************************************************************************)
Txt_PART == <<"P", "A", "R", "T", " ">>
Txt_CHAPTER == <<"C", "H", "A", "P", "T", "E", "R", " ">>

\* <literal><one or more of cls><space><at least one more character>
KeywordRunRest(s, literal, cls) ==
    /\ StartsWith(s, literal)
    /\ LET r == RunLen(s, Len(literal), cls)
       IN /\ r >= 1
          /\ Len(s) >= Len(literal) + r + 2
          /\ s[Len(literal) + r + 1] = " "

\* chunker4.py: PART_PATTERN = ^PART [I]+ .+$
PART_PATTERN(s) == KeywordRunRest(s, Txt_PART, {"I"})

\* chunker4.py: CHAPTER_PATTERN = ^CHAPTER \d+ .+$
CHAPTER_PATTERN(s) == KeywordRunRest(s, Txt_CHAPTER, Digit)

\* chunker4.py: SECTION_PATTERN = ^[A-Z\s\d.,:;!?()\-]+$
SECTION_PATTERN4(s) ==
    /\ Len(s) >= 1
    /\ \A k \in 1..Len(s) : s[k] \in Upper \cup Whitespace \cup Digit \cup HeaderPunct

\* pdf_chunker.py: SECTION_PATTERN = ^[A-Z][\w\s\d.,:;!?()\-]+$
SECTION_PATTERN(s) ==
    /\ Len(s) >= 2
    /\ s[1] \in Upper
    /\ \A k \in 2..Len(s) :
          s[k] \in Upper \cup Lower \cup Digit \cup {"_"} \cup Whitespace \cup HeaderPunct

(***************************************************************************)
(* concatenate_page_texts (the same code in pdf_chunker.py and chunker4.py) *)
(***************************************************************************)
RECURSIVE concatenate_from(_, _, _, _)
concatenate_from(pgs, k, text, indices) ==
    IF k > Len(pgs) THEN [full_text |-> text, page_indices |-> indices]
    ELSE LET page_text == pgs[k].text \o <<"\n", "\n">>
             start_index == Len(text)
             end_index == start_index + Len(page_text)
         IN concatenate_from(pgs, k + 1, text \o page_text,
                Append(indices, [page_id |-> pgs[k].page_id,
                                 start_index |-> start_index,
                                 end_index |-> end_index]))

concatenate_page_texts(pgs) == concatenate_from(pgs, 1, <<>>, <<>>)

(***************************************************************************)
(* PDFChunker.extract_sections                                             *)
(***************************************************************************)
\* sum(len(lines[j]) for j in range(a, b))
LinesLen(lines, a, b) == SumLen(Slice(lines, a, b))

\* the section record the code appends for lines[section_start_index:i]
SectionRecord(lines, name, section_start_index, i) ==
    [name |-> name,
     text |-> Concat(Slice(lines, section_start_index, i)),
     start_index |-> LET current_index == 0
                     IN current_index + LinesLen(lines, 0, section_start_index),
     end_index |-> LET current_index == 0
                   IN current_index + LinesLen(lines, section_start_index, i)]

\* loop state: i (0-based line number), current_section, section_start_index
RECURSIVE extract_sections_loop(_, _, _, _, _)
extract_sections_loop(lines, i, current_section, section_start_index, secs) ==
    IF i >= Len(lines)
    THEN IF section_start_index < Len(lines)
         THEN Append(secs, SectionRecord(lines, current_section,
                                         section_start_index, Len(lines)))
         ELSE secs
    ELSE LET line_stripped == Strip(lines[i + 1])
         IN IF SECTION_PATTERN(line_stripped) /\ Len(line_stripped) > 5
            THEN extract_sections_loop(lines, i + 1, line_stripped, i,
                    IF i > 0
                    THEN Append(secs, SectionRecord(lines, current_section,
                                                    section_start_index, i))
                    ELSE secs)
            ELSE extract_sections_loop(lines, i + 1, current_section,
                                       section_start_index, secs)

Txt_Introduction == <<"I", "n", "t", "r", "o", "d", "u", "c", "t", "i", "o", "n">>

extract_sections(text) ==
    extract_sections_loop(SplitLines(text), 0, Txt_Introduction, 0, <<>>)


(***************************************************************************)
(* The tokenizer (tiktoken cl100k_base) is a collaborator.  It is modelled *)
(* as a count that adds up over characters: white space counts 0, the      *)
(* letter "w" stands for a long stretch of prose worth HeavyTokens tokens, *)
(* every other character counts 1.                                         *)
(***************************************************************************)
HeavyTokens == 400

TokenWeight(c) ==
    IF c \in Whitespace THEN 0 ELSE IF c = "w" THEN HeavyTokens ELSE 1

RECURSIVE TokenCount(_)
TokenCount(s) ==
    IF s = <<>> THEN 0 ELSE TokenWeight(Head(s)) + TokenCount(Tail(s))

(***************************************************************************)
(* chunker4.py: split_into_paragraph_chunks                                *)
(***************************************************************************)
chunker4_MAX_TOKENS_PER_CHUNK == 700

Chunk4(text, labels, start_index, end_index, sub_chunk) ==
    [text |-> text, part |-> labels.part, chapter |-> labels.chapter,
     section |-> labels.section, start_index |-> start_index,
     end_index |-> end_index, sub_chunk |-> sub_chunk]

\* f"Part {sub_chunk_count}"
PartLabel(sub_chunk_count) == <<"Part", sub_chunk_count>>

\* The loop over the sentences of one oversized paragraph.  st holds the
\* loop variables sub_chunk_text, sub_chunk_tokens, sub_chunk_count,
\* sub_start_index, current_index and the chunks appended so far.
RECURSIVE sentence_loop(_, _, _, _)
sentence_loop(sentences, k, labels, st) ==
    IF k > Len(sentences)
    THEN \* "Add the final sub-chunk"
         IF Strip(st.sub_chunk_text) # <<>>
         THEN LET sub_end_index == st.sub_start_index + Len(Strip(st.sub_chunk_text))
              IN [chunks |-> Append(st.chunks,
                        Chunk4(Strip(st.sub_chunk_text), labels,
                               st.sub_start_index, sub_end_index,
                               IF st.sub_chunk_count > 1
                               THEN PartLabel(st.sub_chunk_count) ELSE None)),
                  current_index |-> sub_end_index]
         ELSE [chunks |-> st.chunks, current_index |-> st.current_index]
    ELSE LET sentence == sentences[k]
             sentence_tokens == TokenCount(sentence)
         IN IF st.sub_chunk_tokens + sentence_tokens <= chunker4_MAX_TOKENS_PER_CHUNK
            THEN sentence_loop(sentences, k + 1, labels,
                    [st EXCEPT !.sub_chunk_text = @ \o sentence \o <<" ">>,
                               !.sub_chunk_tokens = @ + sentence_tokens])
            ELSE LET emit == Strip(st.sub_chunk_text) # <<>>
                     sub_end_index == st.sub_start_index + Len(Strip(st.sub_chunk_text))
                     current_index == IF emit THEN sub_end_index ELSE st.current_index
                 IN sentence_loop(sentences, k + 1, labels,
                       [sub_chunk_text |-> sentence \o <<" ">>,
                        sub_chunk_tokens |-> sentence_tokens,
                        sub_chunk_count |-> st.sub_chunk_count + 1,
                        sub_start_index |-> current_index,
                        current_index |-> current_index,
                        chunks |-> IF emit
                                   THEN Append(st.chunks,
                                          Chunk4(Strip(st.sub_chunk_text), labels,
                                                 st.sub_start_index, sub_end_index,
                                                 PartLabel(st.sub_chunk_count)))
                                   ELSE st.chunks])

\* The loop over the paragraphs of one run.
RECURSIVE paragraph_loop(_, _, _, _, _, _)
paragraph_loop(paragraphs, k, labels, current_index, text, out) ==
    IF k > Len(paragraphs) THEN out
    ELSE LET paragraph == Strip(paragraphs[k])
         IN IF paragraph = <<>>
            THEN paragraph_loop(paragraphs, k + 1, labels, current_index, text, out)
            ELSE LET paragraph_start == Find(text, paragraph, current_index)
                     paragraph_end == paragraph_start + Len(paragraph)
                 IN IF TokenCount(paragraph) <= chunker4_MAX_TOKENS_PER_CHUNK
                    THEN paragraph_loop(paragraphs, k + 1, labels, paragraph_end, text,
                            Append(out, Chunk4(paragraph, labels, paragraph_start,
                                               paragraph_end, None)))
                    ELSE LET r == sentence_loop(SplitSentences(paragraph), 1, labels,
                                     [sub_chunk_text |-> <<>>,
                                      sub_chunk_tokens |-> 0,
                                      sub_chunk_count |-> 1,
                                      sub_start_index |-> paragraph_start,
                                      current_index |-> current_index,
                                      chunks |-> out])
                         IN paragraph_loop(paragraphs, k + 1, labels,
                                           r.current_index, text, r.chunks)

split_into_paragraph_chunks(text, labels, start_index, whole_text) ==
    paragraph_loop(SplitParagraphs(text), 1, labels, start_index, whole_text, <<>>)


(***************************************************************************)
(* chunker4.py: identify_boundaries_and_paragraphs, one action per line.   *)
(* scan.i is the 0-based number of the next line; sections logs, for every *)
(* call of split_into_paragraph_chunks, the run text and the start offset  *)
(* passed to it.                                                           *)
(***************************************************************************)
ScanInit ==
    [i |-> 0, current_part |-> None, current_chapter |-> None,
     current_section |-> None, current_text |-> <<>>, current_start_index |-> 0]

ScanLabels ==
    [part |-> scan.current_part, chapter |-> scan.current_chapter,
     section |-> scan.current_section]

ScanLine == SplitLines(full_text)[scan.i + 1]

\* "if current_text: chunks.extend(split_into_paragraph_chunks(...))"
FlushedChunks ==
    IF scan.current_text # <<>>
    THEN chunks \o split_into_paragraph_chunks(scan.current_text, ScanLabels,
                                               scan.current_start_index, full_text)
    ELSE chunks

FlushedRuns ==
    IF scan.current_text # <<>>
    THEN Append(sections, [part |-> scan.current_part,
                           chapter |-> scan.current_chapter,
                           section |-> scan.current_section,
                           text |-> scan.current_text,
                           start_index |-> scan.current_start_index,
                           end_index |-> scan.current_start_index
                                             + Len(scan.current_text)])
    ELSE sections

Scanning ==
    /\ impl = "chunker4"
    /\ pc = "segment"
    /\ scan.i < Len(SplitLines(full_text))

IsPartLine(line) == PART_PATTERN(Strip(line))

IsChapterLine(line) == ~IsPartLine(line) /\ CHAPTER_PATTERN(Strip(line))

IsSectionLine(line) ==
    /\ ~IsPartLine(line)
    /\ ~CHAPTER_PATTERN(Strip(line))
    /\ SECTION_PATTERN4(Strip(line))
    /\ Len(Strip(line)) > 10
    /\ ~StartsWith(Strip(line), Txt_PART)

ScanPartHeader ==
    /\ Scanning
    /\ IsPartLine(ScanLine)
    /\ chunks' = FlushedChunks
    /\ sections' = FlushedRuns
    /\ scan' = [scan EXCEPT !.i = @ + 1,
                            !.current_part = Strip(ScanLine),
                            !.current_chapter = None,
                            !.current_section = None,
                            !.current_text = <<>>,
                            !.current_start_index = @ + Len(ScanLine)]
    /\ UNCHANGED <<impl, pages, config, pc, full_text, page_indices, bound_once>>
    /\ UNCHANGED <<queryVars, selectVars, aggVars, ingestVars, filterVars, splitVars, windowVars, retryVars, rankVars, svcVars, paraVars>>

\* a variant in which a Chapter header leaves the section label alone
ScanChapterHeader_keeps_section ==
    /\ Scanning
    /\ IsChapterLine(ScanLine)
    /\ chunks' = FlushedChunks
    /\ sections' = FlushedRuns
    /\ scan' = [scan EXCEPT !.i = @ + 1,
                            !.current_chapter = Strip(ScanLine),
                            !.current_text = ScanLine,
                            !.current_start_index = @ + Len(ScanLine)]
    /\ UNCHANGED <<impl, pages, config, pc, full_text, page_indices, bound_once>>
    /\ UNCHANGED <<queryVars, selectVars, aggVars, ingestVars, filterVars, splitVars, windowVars, retryVars, rankVars, svcVars, paraVars>>

ScanChapterHeader ==
    /\ Scanning
    /\ IsChapterLine(ScanLine)
    /\ chunks' = FlushedChunks
    /\ sections' = FlushedRuns
    /\ scan' = [scan EXCEPT !.i = @ + 1,
                            !.current_chapter = Strip(ScanLine),
                            !.current_section = None,
                            !.current_text = ScanLine,
                            !.current_start_index = @ + Len(ScanLine)]
    /\ UNCHANGED <<impl, pages, config, pc, full_text, page_indices, bound_once>>
    /\ UNCHANGED <<queryVars, selectVars, aggVars, ingestVars, filterVars, splitVars, windowVars, retryVars, rankVars, svcVars, paraVars>>

ScanSectionHeader ==
    /\ Scanning
    /\ IsSectionLine(ScanLine)
    /\ chunks' = FlushedChunks
    /\ sections' = FlushedRuns
    /\ scan' = [scan EXCEPT !.i = @ + 1,
                            !.current_section = Strip(ScanLine),
                            !.current_text = ScanLine,
                            !.current_start_index = @ + Len(ScanLine)]
    /\ UNCHANGED <<impl, pages, config, pc, full_text, page_indices, bound_once>>
    /\ UNCHANGED <<queryVars, selectVars, aggVars, ingestVars, filterVars, splitVars, windowVars, retryVars, rankVars, svcVars, paraVars>>

ScanTextLine ==
    /\ Scanning
    /\ ~IsPartLine(ScanLine) /\ ~IsChapterLine(ScanLine) /\ ~IsSectionLine(ScanLine)
    /\ scan' = [scan EXCEPT !.i = @ + 1, !.current_text = @ \o ScanLine]
    /\ UNCHANGED <<impl, pages, config, pc, full_text, page_indices, sections,
                   chunks, bound_once>>
    /\ UNCHANGED <<queryVars, selectVars, aggVars, ingestVars, filterVars, splitVars, windowVars, retryVars, rankVars, svcVars, paraVars>>

\* "Add the final chunk" and return
ScanFinish ==
    /\ impl = "chunker4"
    /\ pc = "segment"
    /\ scan.i = Len(SplitLines(full_text))
    /\ chunks' = FlushedChunks
    /\ sections' = FlushedRuns
    /\ pc' = "tables"
    /\ UNCHANGED <<impl, pages, config, full_text, page_indices, scan, bound_once>>
    /\ UNCHANGED <<queryVars, selectVars, aggVars, ingestVars, filterVars, splitVars, windowVars, retryVars, rankVars, svcVars, paraVars>>


(***************************************************************************)
(* pdf_chunker.py: PDFChunker.create_contextual_chunks                     *)
(***************************************************************************)
MAX_TOKENS_PER_CHUNK == 1500
CHUNK_OVERLAP_TOKENS == 300

Txt_SECTION == <<"S", "E", "C", "T", "I", "O", "N", ":", " ">>

\* f"SECTION: {section_name}\n\n"
SectionHeaderText(section_name) == Txt_SECTION \o section_name \o <<"\n", "\n">>

\* "Track paragraph positions within section"
RECURSIVE paragraph_positions(_, _, _, _, _)
paragraph_positions(paragraphs, k, section, current_position, out) ==
    IF k > Len(paragraphs) THEN out
    ELSE LET p == paragraphs[k]
             p_start == Find(section.text, p, current_position)
             p_end == p_start + Len(p)
         IN IF p_start # -1
            THEN paragraph_positions(paragraphs, k + 1, section, p_end,
                    Append(out, [text |-> p,
                                 start |-> section.start_index + p_start,
                                 end |-> section.start_index + p_end]))
            ELSE paragraph_positions(paragraphs, k + 1, section,
                                     current_position, out)

\* "Add paragraphs until we hit the token limit": returns j, the text and
\* the end offset reached; i, j are 0-based as in the code
RECURSIVE add_paragraphs(_, _, _, _, _)
add_paragraphs(paragraph_indices, j, current_tokens, text, chunk_end_index) ==
    IF j < Len(paragraph_indices) /\ current_tokens < MAX_TOKENS_PER_CHUNK
    THEN LET paragraph == paragraph_indices[j + 1].text
             paragraph_tokens == TokenCount(paragraph)
         IN IF /\ current_tokens + paragraph_tokens > MAX_TOKENS_PER_CHUNK
               /\ current_tokens > CHUNK_OVERLAP_TOKENS
            THEN [j |-> j, text |-> text, chunk_end_index |-> chunk_end_index]
            ELSE add_paragraphs(paragraph_indices, j + 1,
                                current_tokens + paragraph_tokens,
                                text \o paragraph \o <<"\n", "\n">>,
                                paragraph_indices[j + 1].end)
    ELSE [j |-> j, text |-> text, chunk_end_index |-> chunk_end_index]

\* "Slide the window with overlap": the value of next_i after the loop
RECURSIVE slide_window(_, _, _, _)
slide_window(paragraph_indices, next_i, j, overlap_tokens) ==
    IF next_i < j /\ overlap_tokens < CHUNK_OVERLAP_TOKENS
    THEN LET more == overlap_tokens + TokenCount(paragraph_indices[next_i].text)
         IN IF more >= CHUNK_OVERLAP_TOKENS THEN next_i
            ELSE slide_window(paragraph_indices, next_i + 1, j, more)
    ELSE next_i

ContextualChunk(text, section_name, start_index, end_index, first, last) ==
    [text |-> Strip(text), section |-> section_name,
     start_index |-> start_index, end_index |-> end_index,
     paragraph_range |-> <<first, last>>]

\* a variant without "Ensure we advance at least one paragraph"
NextWindowStart_may_stall(paragraph_indices, i, j) ==
    slide_window(paragraph_indices, i + 1, j, 0) - 1

\* the value the code assigns to i after emitting the window [i, j)
NextWindowStart(paragraph_indices, i, j) ==
    Max(i + 1, slide_window(paragraph_indices, i + 1, j, 0) - 1)

\* one round of "while i < len(paragraph_indices)": the chunk it appends
\* and the value it leaves in i
window_round(paragraph_indices, i, section_name) ==
    LET header == SectionHeaderText(section_name)
        chunk_start_index == paragraph_indices[i + 1].start
        w == add_paragraphs(paragraph_indices, i, TokenCount(header),
                            header, None)
    IN IF w.j > i
       THEN [i |-> NextWindowStart(paragraph_indices, i, w.j),
             chunk |-> ContextualChunk(w.text, section_name,
                           chunk_start_index, w.chunk_end_index, i + 1, w.j)]
       ELSE \* "force add the current one and move on"
            [i |-> i + 1,
             chunk |-> ContextualChunk(
                           header \o paragraph_indices[i + 1].text \o <<"\n", "\n">>,
                           section_name, chunk_start_index,
                           paragraph_indices[i + 1].end, i + 1, i + 1)]

\* "Create overlapping chunks using sliding window"
RECURSIVE window_loop(_, _, _, _)
window_loop(paragraph_indices, i, section_name, out) ==
    IF i >= Len(paragraph_indices) THEN out
    ELSE LET r == window_round(paragraph_indices, i, section_name)
         IN window_loop(paragraph_indices, r.i, section_name,
                        Append(out, r.chunk))

\* the paragraphs of one section: split, then drop the blank ones
SectionParagraphs(section) ==
    LET ps == SplitParagraphs(Strip(section.text))
    IN SelectSeq(ps, LAMBDA p : Strip(p) # <<>>)

SectionChunks(section) ==
    LET paragraphs == SectionParagraphs(section)
    IN IF paragraphs = <<>> THEN <<>>
       ELSE window_loop(paragraph_positions(paragraphs, 1, section, 0, <<>>),
                        0, section.name, <<>>)

RECURSIVE create_contextual_chunks(_)
create_contextual_chunks(secs) ==
    IF secs = <<>> THEN <<>>
    ELSE SectionChunks(Head(secs)) \o create_contextual_chunks(Tail(secs))


(***************************************************************************)
(* Table binding: PDFChunker.process_tables and chunker4.process_tables    *)
(***************************************************************************)
Txt_TABLE == <<"T", "A", "B", "L", "E">>
Txt_Table == <<"T", "a", "b", "l", "e">>
Txt_RowSep == <<" ", "|", " ">>

\* the rows, each " | ".join(row) + "\n"
RECURSIVE RowsText(_)
RowsText(data) ==
    IF data = <<>> THEN <<>>
    ELSE Join(Head(data), Txt_RowSep) \o <<"\n">> \o RowsText(Tail(data))

\* pdf_chunker.py: f"TABLE {table_id}:\n" + rows, stripped
PDFChunker_table_text(table) ==
    Strip(Txt_TABLE \o <<" ">> \o table.table_id \o <<":", "\n">>
              \o RowsText(table.data))

\* chunker4.py: f"Table {table_id}:\n" + rows, stripped
chunker4_table_text(table) ==
    Strip(Txt_Table \o <<" ">> \o table.table_id \o <<":", "\n">>
              \o RowsText(table.data))

\* next((p for p in page_indices if p['page_id'] == page_id), None)
HasPageIndex(indices, page_id) ==
    \E k \in 1..Len(indices) : indices[k].page_id = page_id

PageIndexOf(indices, page_id) ==
    LET hits == {k \in 1..Len(indices) : indices[k].page_id = page_id}
    IN indices[CHOOSE k \in hits : \A m \in hits : k <= m]

Overlaps(chunk, page_index) ==
    /\ chunk.start_index < page_index.end_index
    /\ chunk.end_index > page_index.start_index

\* pdf_chunker.py lines 360-368: the guarded append to one chunk
PDFChunker_bind(chunk, page_index, table) ==
    IF Overlaps(chunk, page_index)
    THEN IF ~Contains(chunk.text, Txt_TABLE)
         THEN [chunk EXCEPT !.text = @ \o <<"\n", "\n">> \o PDFChunker_table_text(table)]
         ELSE IF ~Contains(chunk.text,
                           Txt_TABLE \o <<" ">> \o table.table_id \o <<":">>)
              THEN [chunk EXCEPT !.text = @ \o <<"\n", "\n">>
                                            \o PDFChunker_table_text(table)]
              ELSE chunk
    ELSE chunk

\* chunker4.py lines 221-225: the append to one chunk
chunker4_bind(chunk, page_index, table) ==
    IF Overlaps(chunk, page_index)
    THEN [chunk EXCEPT !.text = @ \o <<"\n">> \o chunker4_table_text(table)]
    ELSE chunk

BindOne(variant, chunk, page_index, table) ==
    IF variant = "pdf_chunker" THEN PDFChunker_bind(chunk, page_index, table)
    ELSE chunker4_bind(chunk, page_index, table)

\* "for table in page['tables']: for chunk in chunks: ..."
RECURSIVE bind_tables(_, _, _, _)
bind_tables(variant, chs, page_index, tables) ==
    IF tables = <<>> THEN chs
    ELSE bind_tables(variant,
                     [k \in 1..Len(chs) |-> BindOne(variant, chs[k], page_index,
                                                    Head(tables))],
                     page_index, Tail(tables))

\* "for page in pages: ..."; a page without an index entry or without
\* tables is skipped
RECURSIVE bind_pages(_, _, _, _)
bind_pages(variant, pgs, chs, indices) ==
    IF pgs = <<>> THEN chs
    ELSE LET page == Head(pgs)
             page_index == PageIndexOf(indices, page.page_id)
         IN IF ~HasPageIndex(indices, page.page_id) \/ page.tables = <<>>
            THEN bind_pages(variant, Tail(pgs), chs, indices)
            ELSE bind_pages(variant, Tail(pgs),
                            bind_tables(variant, chs, page_index, page.tables),
                            indices)

PDFChunker_process_tables(pgs, chs, indices) ==
    bind_pages("pdf_chunker", pgs, chs, indices)

chunker4_process_tables(pgs, chs, indices) ==
    bind_pages("chunker4", pgs, chs, indices)

(***************************************************************************)
(* chunker.py: chunk_text_tokens.  A token is a white-space separated      *)
(* word.  Each chunk is kept as the list of its sentences (current_chunk); *)
(* its text is " ".join of them.                                           *)
(***************************************************************************)
WordCount(s) == Len(SplitWords(s))

\* current_chunk[-overlap_tokens:] if overlap_tokens > 0 else []
LastN(seq, n) == IF n > 0 THEN SubSeq(seq, Len(seq) - n + 1, Len(seq)) ELSE <<>>

RECURSIVE chunk_text_loop(_, _, _, _, _, _)
chunk_text_loop(sentences, k, cfg, current_chunk, current_token_count, out) ==
    IF k > Len(sentences)
    THEN IF current_chunk # <<>> THEN Append(out, current_chunk) ELSE out
    ELSE LET sentence == sentences[k]
             sentence_tokens == WordCount(sentence)
         IN IF /\ current_token_count + sentence_tokens > cfg.max_tokens
               /\ current_token_count > 0
            THEN LET overlap_tokens == Min(cfg.overlap_tokens, Len(current_chunk))
                     carried == LastN(current_chunk, overlap_tokens)
                 IN chunk_text_loop(sentences, k + 1, cfg,
                        Append(carried, sentence),
                        WordCount(Join(carried, <<" ">>)) + sentence_tokens,
                        Append(out, current_chunk))
            ELSE chunk_text_loop(sentences, k + 1, cfg,
                        Append(current_chunk, sentence),
                        current_token_count + sentence_tokens, out)

chunk_text_tokens(text, cfg) ==
    LET units == chunk_text_loop(SplitSentences(text), 1, cfg, <<>>, 0, <<>>)
    IN [k \in 1..Len(units) |->
           [text |-> Join(units[k], <<" ">>), sentences |-> units[k]]]

\* chunker.py process_page over every page that has text (tables aside)
RECURSIVE chunker_pages(_, _)
chunker_pages(pgs, cfg) ==
    IF pgs = <<>> THEN <<>>
    ELSE (IF Head(pgs).text # <<>> THEN chunk_text_tokens(Head(pgs).text, cfg)
                                   ELSE <<>>)
             \o chunker_pages(Tail(pgs), cfg)


(***************************************************************************)
(* chunker2.py: identify_boundaries, one action per line.  The header      *)
(* patterns are those of chunker4.py; the lines are full_text.split('\n'), *)
(* each stripped before it is looked at.  scan holds the loop variables.   *)
(***************************************************************************)
Lines2 == SplitOn(full_text, "\n")

Chunk2(text, labels) ==
    [text |-> text, part |-> labels.part, chapter |-> labels.chapter,
     section |-> labels.section]

\* "if current_text.strip(): chunks.append(...)"
Appended2 ==
    IF Strip(scan.current_text) # <<>>
    THEN Append(chunks, Chunk2(Strip(scan.current_text), ScanLabels))
    ELSE chunks

\* full_text = concatenate_page_texts(pages)
ConcatenatePageTexts2 ==
    /\ impl = "chunker2"
    /\ pc = "start"
    /\ full_text' = concatenate_page_texts(pages).full_text
    /\ pc' = "segment"
    /\ UNCHANGED <<impl, pages, config, page_indices, sections, scan, chunks,
                   bound_once>>
    /\ UNCHANGED <<queryVars, selectVars, aggVars, ingestVars, filterVars, splitVars, windowVars, retryVars, rankVars, svcVars, paraVars>>

\* one round of "for line in lines"
IdentifyBoundariesLine ==
    /\ impl = "chunker2"
    /\ pc = "segment"
    /\ scan.i < Len(Lines2)
    /\ LET line == Strip(Lines2[scan.i + 1])
       IN IF PART_PATTERN(line)
          THEN /\ chunks' = Appended2
               /\ scan' = [scan EXCEPT !.i = @ + 1,
                                       !.current_part = line,
                                       !.current_chapter = None,
                                       !.current_section = None,
                                       !.current_text = <<>>]
          ELSE IF CHAPTER_PATTERN(line)
          THEN /\ chunks' = Appended2
               /\ scan' = [scan EXCEPT !.i = @ + 1,
                                       !.current_chapter = line,
                                       !.current_section = None,
                                       !.current_text = line \o <<"\n">>]
          ELSE IF /\ SECTION_PATTERN4(line)
                  /\ Len(line) > 10
                  /\ ~StartsWith(line, Txt_PART)
          THEN /\ chunks' = Appended2
               /\ scan' = [scan EXCEPT !.i = @ + 1,
                                       !.current_section = line,
                                       !.current_text = line \o <<"\n">>]
          ELSE /\ chunks' = chunks
               /\ scan' = [scan EXCEPT !.i = @ + 1,
                                       !.current_text = @ \o line \o <<"\n">>]
    /\ UNCHANGED <<impl, pages, config, pc, full_text, page_indices, sections,
                   bound_once>>
    /\ UNCHANGED <<queryVars, selectVars, aggVars, ingestVars, filterVars, splitVars, windowVars, retryVars, rankVars, svcVars, paraVars>>

\* "Add the final chunk" and return
IdentifyBoundariesFinish ==
    /\ impl = "chunker2"
    /\ pc = "segment"
    /\ scan.i = Len(Lines2)
    /\ chunks' = Appended2
    /\ pc' = "done"
    /\ UNCHANGED <<impl, pages, config, full_text, page_indices, sections, scan,
                   bound_once>>
    /\ UNCHANGED <<queryVars, selectVars, aggVars, ingestVars, filterVars, splitVars, windowVars, retryVars, rankVars, svcVars, paraVars>>


(***************************************************************************)
(* The documents the pipeline is run on                                    *)
(***************************************************************************)
MaxLines == 4        \* lines of a one-page document
MaxPages == 2        \* pages of a several-page document
MaxPageLines == 1    \* lines of each page of a several-page document

L_blank == <<>>
L_plain == <<"a", "b">>
L_part == <<"P", "A", "R", "T", " ", "I", " ", "A">>
L_chapter == <<"C", "H", "A", "P", "T", "E", "R", " ", "1", " ", "A">>
L_caps == <<"A", "B", "C", "D", "E", "F", "G", "H", "I", "J", "K">>
L_sentences == <<"a", "b", " ", "c", "d", ".", " ", "e", "f", ".">>
L_heavy2 == <<"w", ".", " ", "w", ".">>
L_heavy4 == <<"w", " ", "w", " ", "w", " ", "w">>

LineKinds == {L_blank, L_plain, L_part, L_chapter, L_caps, L_sentences,
              L_heavy2, L_heavy4}

SeqsUpTo(S, n) == UNION {[1..k -> S] : k \in 0..n}

\* a page text: its lines joined by the line terminator
PageTexts(n) == {Join(ls, <<"\n">>) : ls \in SeqsUpTo(LineKinds, n)}

\* a table: its id and its rows, each row a sequence of cell texts
Table1 == [table_id |-> <<"1">>, data |-> << <<<<"x">>, <<"y">>>> >>]
Table2 == [table_id |-> <<"2">>, data |-> << <<<<"z">>>> >>]
TableLists == {<<>>, <<Table1>>, <<Table1, Table2>>}

MakePages(texts, tables) ==
    [k \in 1..Len(texts) |->
        [page_id |-> k, text |-> texts[k], tables |-> tables[k]]]

NoTables(n) == [k \in 1..n |-> <<>>]

\* documents without tables: one page of up to MaxLines lines, or up to
\* MaxPages pages of up to MaxPageLines lines
TextDocuments ==
    {MakePages(<<t>>, NoTables(1)) : t \in PageTexts(MaxLines)}
    \cup {MakePages(ts, NoTables(Len(ts))) :
             ts \in SeqsUpTo(PageTexts(MaxPageLines), MaxPages)}

\* documents with tables: up to MaxPages pages of up to MaxPageLines lines
TableDocuments ==
    UNION {{MakePages(ts, tb) : tb \in [1..Len(ts) -> TableLists]} :
              ts \in SeqsUpTo(PageTexts(MaxPageLines), MaxPages)}

\* config.py: ChunkingConfig defaults
DEFAULT_max_tokens == 300
DEFAULT_overlap_tokens == 50

DefaultConfig == [max_tokens |-> DEFAULT_max_tokens,
                  overlap_tokens |-> DEFAULT_overlap_tokens]

\* the ChunkingConfig values chunker.py is run with
Configs == {DefaultConfig,
            [max_tokens |-> 2, overlap_tokens |-> 0],
            [max_tokens |-> 2, overlap_tokens |-> 1],
            [max_tokens |-> 3, overlap_tokens |-> 1]}

(***************************************************************************)
(* The document pipeline: PDFChunker.process (paragraph strategy),         *)
(* chunker4.main, and chunker.py process_page over the pages               *)
(***************************************************************************)
InitDoc ==
    /\ impl \in {"pdf_chunker", "chunker4", "chunker"}
    /\ pages \in TextDocuments \cup
                 (IF impl = "chunker" THEN {} ELSE TableDocuments)
    /\ config \in (IF impl = "chunker" THEN Configs ELSE {DefaultConfig})
    /\ pc = "start"
    /\ full_text = <<>>
    /\ page_indices = <<>>
    /\ sections = <<>>
    /\ scan = ScanInit
    /\ chunks = <<>>
    /\ bound_once = <<>>
    /\ QueryIdle /\ SelectIdle /\ AggIdle /\ IngestIdle /\ FilterIdle /\ SplitIdle /\ WindowIdle /\ RetryIdle /\ RankIdle /\ SvcIdle /\ ParaIdle

\* full_text, page_indices = concatenate_page_texts(pages)
ConcatenatePageTexts ==
    /\ impl \in {"pdf_chunker", "chunker4"}
    /\ pc = "start"
    /\ full_text' = concatenate_page_texts(pages).full_text
    /\ page_indices' = concatenate_page_texts(pages).page_indices
    /\ pc' = "segment"
    /\ UNCHANGED <<impl, pages, config, sections, scan, chunks, bound_once>>
    /\ UNCHANGED <<queryVars, selectVars, aggVars, ingestVars, filterVars, splitVars, windowVars, retryVars, rankVars, svcVars, paraVars>>

\* sections = self.extract_sections(full_text)
ExtractSections ==
    /\ impl = "pdf_chunker"
    /\ pc = "segment"
    /\ sections' = extract_sections(full_text)
    /\ pc' = "chunk"
    /\ UNCHANGED <<impl, pages, config, full_text, page_indices, scan, chunks,
                   bound_once>>
    /\ UNCHANGED <<queryVars, selectVars, aggVars, ingestVars, filterVars, splitVars, windowVars, retryVars, rankVars, svcVars, paraVars>>

\* chunks = self.create_contextual_chunks(sections)
CreateContextualChunks ==
    /\ impl = "pdf_chunker"
    /\ pc = "chunk"
    /\ chunks' = create_contextual_chunks(sections)
    /\ pc' = "tables"
    /\ UNCHANGED <<impl, pages, config, full_text, page_indices, sections, scan,
                   bound_once>>
    /\ UNCHANGED <<queryVars, selectVars, aggVars, ingestVars, filterVars, splitVars, windowVars, retryVars, rankVars, svcVars, paraVars>>

\* chunks = process_tables(pages, chunks, page_indices); the binder is run
\* once by the pipeline (pc = "tables") and may be run again on its own
\* result (pc = "bound")
ProcessTables ==
    /\ impl \in {"pdf_chunker", "chunker4"}
    /\ pc \in {"tables", "bound"}
    /\ chunks' = IF impl = "pdf_chunker"
                 THEN PDFChunker_process_tables(pages, chunks, page_indices)
                 ELSE chunker4_process_tables(pages, chunks, page_indices)
    /\ bound_once' = IF pc = "tables" THEN chunks' ELSE bound_once
    /\ pc' = IF pc = "tables" THEN "bound" ELSE "rebound"
    /\ UNCHANGED <<impl, pages, config, full_text, page_indices, sections, scan>>
    /\ UNCHANGED <<queryVars, selectVars, aggVars, ingestVars, filterVars, splitVars, windowVars, retryVars, rankVars, svcVars, paraVars>>

\* chunker.py: process_page on every page
ChunkTextTokens ==
    /\ impl = "chunker"
    /\ pc = "start"
    /\ chunks' = chunker_pages(pages, config)
    /\ pc' = "done"
    /\ UNCHANGED <<impl, pages, config, full_text, page_indices, sections, scan,
                   bound_once>>
    /\ UNCHANGED <<queryVars, selectVars, aggVars, ingestVars, filterVars, splitVars, windowVars, retryVars, rankVars, svcVars, paraVars>>

NextDoc ==
    \/ ConcatenatePageTexts
    \/ ExtractSections
    \/ CreateContextualChunks
    \/ ScanPartHeader
    \/ ScanChapterHeader
    \/ ScanSectionHeader
    \/ ScanTextLine
    \/ ScanFinish
    \/ ProcessTables
    \/ ChunkTextTokens

SpecDoc == InitDoc /\ [][NextDoc]_vars

(***************************************************************************)
(* The segmenters alone: the line scans of chunker4.py                     *)
(* (identify_boundaries_and_paragraphs) and chunker2.py                    *)
(* (identify_boundaries) on one-page documents made of header lines and    *)
(* plain lines.                                                            *)
(***************************************************************************)
MaxScanLines == 4

\* begins like a Part header, but has no Roman numeral
L_part_word == <<"P", "A", "R", "T", " ", "O", "N", "E", " ", "A", "B", "C">>

ScanLineKinds == {L_blank, L_plain, L_part, L_chapter, L_caps, L_part_word}

ScanDocuments ==
    {MakePages(<<Join(ls, <<"\n">>)>>, NoTables(1)) :
        ls \in SeqsUpTo(ScanLineKinds, MaxScanLines)}

InitSegment ==
    /\ impl \in {"chunker4", "chunker2"}
    /\ pages \in ScanDocuments
    /\ config = DefaultConfig
    /\ pc = "start"
    /\ full_text = <<>>
    /\ page_indices = <<>>
    /\ sections = <<>>
    /\ scan = ScanInit
    /\ chunks = <<>>
    /\ bound_once = <<>>
    /\ QueryIdle /\ SelectIdle /\ AggIdle /\ IngestIdle /\ FilterIdle /\ SplitIdle /\ WindowIdle /\ RetryIdle /\ RankIdle /\ SvcIdle /\ ParaIdle

NextSegment ==
    \/ ConcatenatePageTexts
    \/ ScanPartHeader
    \/ ScanChapterHeader
    \/ ScanSectionHeader
    \/ ScanTextLine
    \/ ScanFinish
    \/ ConcatenatePageTexts2
    \/ IdentifyBoundariesLine
    \/ IdentifyBoundariesFinish

SpecSegment == InitSegment /\ [][NextSegment]_vars

\* the stripped line the scan is at
ScannedLine ==
    IF impl = "chunker4" THEN Strip(ScanLine) ELSE Strip(Lines2[scan.i + 1])

\* a label is a header text or null
SameLabel(x, y) == ToString(x) = ToString(y)

IsSectionHeader(line) ==
    /\ SECTION_PATTERN4(line)
    /\ Len(line) > 10
    /\ ~StartsWith(line, Txt_PART)

\* the step scans one line and changes the labels as that line demands
C16_LabelStep ==
    (impl \in {"chunker4", "chunker2"} /\ pc = "segment" /\ scan'.i = scan.i + 1) =>
        IF PART_PATTERN(ScannedLine)
        THEN /\ SameLabel(scan'.current_part, ScannedLine)
             /\ SameLabel(scan'.current_chapter, None)
             /\ SameLabel(scan'.current_section, None)
        ELSE IF CHAPTER_PATTERN(ScannedLine)
        THEN /\ SameLabel(scan'.current_part, scan.current_part)
             /\ SameLabel(scan'.current_chapter, ScannedLine)
             /\ SameLabel(scan'.current_section, None)
        ELSE IF IsSectionHeader(ScannedLine)
        THEN /\ SameLabel(scan'.current_part, scan.current_part)
             /\ SameLabel(scan'.current_chapter, scan.current_chapter)
             /\ SameLabel(scan'.current_section, ScannedLine)
        ELSE /\ SameLabel(scan'.current_part, scan.current_part)
             /\ SameLabel(scan'.current_chapter, scan.current_chapter)
             /\ SameLabel(scan'.current_section, scan.current_section)

\* C16: while lines are scanned the labels change only so: a Part header
\* sets part and clears chapter and section; a Chapter header sets chapter,
\* clears section and keeps part; a Section header sets section and keeps
\* part and chapter; any other line keeps all three; a line that matches
\* several patterns counts as Part before Chapter before Section.
C16_LabelsFollowHeaders == [][C16_LabelStep]_vars

\* a Part, a Chapter and a Section header have been scanned and then a
\* second Chapter header, which cleared the section and kept the part
C16_LabelsFollowHeaders_Witness ==
    /\ impl \in {"chunker4", "chunker2"}
    /\ pc = "segment"
    /\ pages[1].text = Join(<<L_part, L_chapter, L_caps, L_chapter>>, <<"\n">>)
    /\ scan.i = 4
    /\ SameLabel(scan.current_part, L_part)
    /\ SameLabel(scan.current_chapter, L_chapter)
    /\ SameLabel(scan.current_section, None)


(***************************************************************************)
(* Properties of the document pipeline                                     *)
(***************************************************************************)
\* the segmenter has returned: sections holds every run it emitted
Segmented ==
    \/ impl = "pdf_chunker" /\ pc = "chunk"
    \/ impl = "chunker4" /\ pc = "tables"

RunTexts == [k \in 1..Len(sections) |-> sections[k].text]

\* C1: the runs emitted by the segmenter have spans that start at 0, are
\* contiguous (each run starts where the previous one ends), end at the
\* length of the concatenated page text, and their texts concatenated in
\* emission order are the concatenated page text.
C1_RunsPartitionText ==
    (Segmented /\ sections # <<>>) =>
        /\ sections[1].start_index = 0
        /\ \A k \in 1..(Len(sections) - 1) :
               sections[k + 1].start_index = sections[k].end_index
        /\ sections[Len(sections)].end_index = Len(full_text)
        /\ Concat(RunTexts) = full_text

\* the chunker has returned and no table has been bound yet
Chunked ==
    \/ impl \in {"pdf_chunker", "chunker4"} /\ pc = "tables"
    \/ impl = "chunker" /\ pc = "done"

\* the token count of a chunk as its chunker counts tokens, the maximum it
\* is configured with, and the number of units (paragraphs of the window,
\* sentences) the chunk is made of
ChunkTokens(chunk) ==
    IF impl = "chunker" THEN WordCount(chunk.text) ELSE TokenCount(chunk.text)

ChunkMaximum ==
    IF impl = "chunker" THEN config.max_tokens
    ELSE IF impl = "chunker4" THEN chunker4_MAX_TOKENS_PER_CHUNK
    ELSE MAX_TOKENS_PER_CHUNK

ChunkUnits(chunk) ==
    IF impl = "chunker" THEN Len(chunk.sentences)
    ELSE IF impl = "chunker4" THEN Len(SplitSentences(chunk.text))
    ELSE chunk.paragraph_range[2] - chunk.paragraph_range[1] + 1

\* C2: every emitted chunk has a token count of at most the configured
\* maximum, unless it consists of exactly one unit (sentence, or paragraph
\* in the paragraph-window chunker).
C2_ChunkWithinMaximum ==
    Chunked =>
        \A k \in 1..Len(chunks) :
            \/ ChunkTokens(chunks[k]) <= ChunkMaximum
            \/ ChunkUnits(chunks[k]) = 1

\* the chunks the chunker makes of one run
RunChunks(run) ==
    IF impl = "chunker4"
    THEN split_into_paragraph_chunks(run.text,
             [part |-> run.part, chapter |-> run.chapter, section |-> run.section],
             run.start_index, full_text)
    ELSE SectionChunks(run)

RangesIncreasing(chs) ==
    \A k \in 1..(Len(chs) - 1) : chs[k + 1].start_index >= chs[k].end_index

\* C3: within one run, each chunk starts at or after the end of the chunk
\* emitted before it, so the chunk ranges are non-overlapping and increasing.
C3_ChunkRangesIncreasing ==
    (impl \in {"pdf_chunker", "chunker4"} /\ pc = "tables") =>
        \A r \in 1..Len(sections) : RangesIncreasing(RunChunks(sections[r]))

\* C4: running process_tables again on the chunks a first run returned
\* leaves every chunk as the first run left it.
C4_BindingIdempotent ==
    pc = "rebound" => chunks = bound_once

\* a line the running segmenter takes for a header
HeaderLine(line) ==
    IF impl = "chunker4"
    THEN IsPartLine(line) \/ IsChapterLine(line) \/ IsSectionLine(line)
    ELSE SECTION_PATTERN(Strip(line)) /\ Len(Strip(line)) > 5

NoHeaders ==
    \A k \in 1..Len(SplitLines(full_text)) : ~HeaderLine(SplitLines(full_text)[k])

\* every label of the run is null; a pdf_chunker section has one label, its
\* name, which is always a text (the default "Introduction" or a header line)
NullLabelled(run) ==
    /\ impl = "chunker4"
    /\ run.part = None /\ run.chapter = None /\ run.section = None

\* C11: for a document none of whose lines is a header (a document without
\* pages and one with empty pages included) the segmenter emits exactly one
\* run, which covers the whole concatenated text and has all labels null.
C11_HeaderlessDocumentOneRun ==
    (Segmented /\ NoHeaders) =>
        /\ Len(sections) = 1
        /\ sections[1].start_index = 0
        /\ sections[1].end_index = Len(full_text)
        /\ sections[1].text = full_text
        /\ NullLabelled(sections[1])


(***************************************************************************)
(* query_reformulation.py                                                  *)
(***************************************************************************)
UpperLetters == <<"A", "B", "C", "D", "E", "F", "G", "H", "I", "J", "K", "L", "M",
                  "N", "O", "P", "Q", "R", "S", "T", "U", "V", "W", "X", "Y", "Z">>
LowerLetters == <<"a", "b", "c", "d", "e", "f", "g", "h", "i", "j", "k", "l", "m",
                  "n", "o", "p", "q", "r", "s", "t", "u", "v", "w", "x", "y", "z">>

\* s.lower()
LowerChar(c) ==
    IF c \in Upper
    THEN LowerLetters[CHOOSE i \in 1..Len(UpperLetters) : UpperLetters[i] = c]
    ELSE c

LowerStr(s) == [k \in 1..Len(s) |-> LowerChar(s[k])]

\* seq[:stop], a negative stop counting from the end
SliceTo(seq, stop) ==
    IF stop >= 0 THEN SubSeq(seq, 1, Min(stop, Len(seq)))
    ELSE SubSeq(seq, 1, Max(Len(seq) + stop, 0))

\* x in seq
InSeq(x, seq) == \E k \in 1..Len(seq) : seq[k] = x

\* the reply of the text-generation collaborator (model.generate_content):
\* it raises, or it answers with a text
Raises == [kind |-> "raises"]
Reply(text) == [kind |-> "text", text |-> text]

\* the same function letting the collaborator's exception through
generate_query_reformulation_reraises(reply) ==
    IF reply.kind = "text"
    THEN [raised |-> FALSE, text |-> Strip(reply.text)]
    ELSE [raised |-> TRUE, text |-> <<>>]

\* generate_query_reformulation: response.text.strip(), and "" on any
\* exception; raised tells whether the call raised
generate_query_reformulation(reply) ==
    IF reply.kind = "text"
    THEN [raised |-> FALSE, text |-> Strip(reply.text)]
    ELSE [raised |-> FALSE, text |-> <<>>]

Txt_social_media == <<"s", "o", "c", "i", "a", "l", " ", "m", "e", "d", "i", "a">>
Txt_depression == <<"d", "e", "p", "r", "e", "s", "s", "i", "o", "n">>

backup_queries ==
    << <<"a", "d", "o", "l", "e", "s", "c", "e", "n", "t", "s", " ", "\"",
         "s", "o", "c", "i", "a", "l", " ", "m", "e", "d", "i", "a", "\"",
         " ", "d", "e", "p", "r", "e", "s", "s", "i", "o", "n", " ", "r",
         "e", "l", "a", "t", "i", "o", "n", "s", "h", "i", "p">>,
       <<"\"", "t", "e", "e", "n", "a", "g", "e", "r", "s", "\"", " ",
         "\"", "s", "o", "c", "i", "a", "l", " ", "n", "e", "t", "w", "o",
         "r", "k", "i", "n", "g", " ", "s", "i", "t", "e", "s", "\"", " ",
         "\"", "m", "e", "n", "t", "a", "l", " ", "h", "e", "a", "l", "t",
         "h", "\"">> >>

\* "for bq in backup_queries: if bq not in result_queries and
\*  len(result_queries) < num_queries - 1: result_queries.append(bq)"
RECURSIVE add_backup_queries(_, _, _)
add_backup_queries(result_queries, bqs, n) ==
    IF bqs = <<>> THEN result_queries
    ELSE add_backup_queries(
             IF ~InSeq(Head(bqs), result_queries) /\ Len(result_queries) < n - 1
             THEN Append(result_queries, Head(bqs))
             ELSE result_queries,
             Tail(bqs), n)

generate_search_queries(query, n, reply) ==
    LET response == generate_query_reformulation(reply)
    IN IF response.raised
       THEN \* except Exception: return [original_query]
            <<query>>
       ELSE LET lines == SplitOn(response.text, "\n")
                queries == SelectSeq([k \in 1..Len(lines) |-> Strip(lines[k])],
                                     LAMBDA q : q # <<>>)
                first == SliceTo(queries, n - 1)
                result_queries ==
                    IF /\ (first = <<>> \/ Len(first) < n - 1)
                       /\ Contains(LowerStr(query), Txt_social_media)
                       /\ Contains(LowerStr(query), Txt_depression)
                    THEN add_backup_queries(first, backup_queries, n)
                    ELSE first
                with_original ==
                    IF ~InSeq(query, result_queries)
                    THEN Append(result_queries, query)
                    ELSE result_queries
            IN SliceTo(with_original, n)


\* the calls generate_search_queries is checked on
MaxNumQueries == 4      \* num_queries ranges over -1..MaxNumQueries

Q_plain == <<"a", "b">>
Q_topic == <<"S", "o", "c", "i", "a", "l", " ", "M", "e", "d", "i", "a", " ", "a",
      "n", "d", " ", "d", "e", "p", "r", "e", "s", "s", "i", "o", "n">>
Q_half == <<"d", "e", "p", "r", "e", "s", "s", "i", "o", "n">>
Q_1 == <<"q", "1">>
Q_2 == <<"q", "2">>
Q_3 == <<"q", "3">>

Queries == {<<>>, Q_plain, Q_topic, Q_half, backup_queries[1]}

\* reply texts: lines joined by "\n"
ReplyLines ==
    {<<>>, <<<<" ">>, <<" ">>>>, <<Q_1>>, <<Q_1, Q_2>>,
     <<<<" ">> \o Q_1 \o <<" ">>, <<>>, Q_2, Q_3, Q_plain>>,
     <<Q_plain, Q_1, Q_2>>, <<Q_1, Q_2, Q_plain>>, <<Q_1, Q_1, Q_1>>,
     <<backup_queries[1]>>, <<Q_topic, Q_1>>}

ModelReplies == {Raises} \cup {Reply(Join(ls, <<"\n">>)) : ls \in ReplyLines}

InitQuery ==
    /\ original_query \in Queries
    /\ num_queries \in (0 - 1)..MaxNumQueries
    /\ model_reply \in ModelReplies
    /\ search_queries = <<>>
    /\ q_pc = "start"
    /\ DocIdle /\ SelectIdle /\ AggIdle /\ IngestIdle /\ FilterIdle /\ SplitIdle /\ WindowIdle /\ RetryIdle /\ RankIdle /\ SvcIdle /\ ParaIdle

\* search_queries = generate_search_queries(query, num_queries, project_info)
GenerateSearchQueries ==
    /\ q_pc = "start"
    /\ search_queries' =
           generate_search_queries(original_query, num_queries, model_reply)
    /\ q_pc' = "done"
    /\ UNCHANGED <<original_query, num_queries, model_reply>>
    /\ UNCHANGED <<docVars, selectVars, aggVars, ingestVars, filterVars, splitVars, windowVars, retryVars, rankVars, svcVars, paraVars>>

NextQuery == GenerateSearchQueries

SpecQuery == InitQuery /\ [][NextQuery]_vars

\* C7: for every original query, every num_queries and every reply of the
\* collaborator, the list generate_search_queries returns contains the
\* original query.
C7_OriginalQueryIncluded ==
    q_pc = "done" => InSeq(original_query, search_queries)

\* the collaborator raised, or answered with an empty response
CollaboratorFailed ==
    \/ model_reply.kind = "raises"
    \/ model_reply.kind = "text" /\ Strip(model_reply.text) = <<>>

HasBackupTopic ==
    /\ Contains(LowerStr(original_query), Txt_social_media)
    /\ Contains(LowerStr(original_query), Txt_depression)

\* the built-in backup queries a failed call starts its answer with
FallbackBackups ==
    IF HasBackupTopic
    THEN SubSeq(backup_queries, 1, Min(Len(backup_queries), num_queries - 1))
    ELSE <<>>

Str(text) == [type |-> "str", value |-> text]
Null == [type |-> "NoneType"]
Missing == [type |-> "missing"]

\* chunk.get("raw_text", "")
GetRawText(chunk) ==
    IF chunk.raw_text = Missing THEN Str(<<>>) ELSE chunk.raw_text

\* the loop of select_top_chunks; raised tells that len(chunk_text) raised
\* (chunk_text is None)
RECURSIVE select_loop(_, _, _, _, _)
select_loop(chs, k, budget, selected_chunks, total_tokens) ==
    IF k > Len(chs) THEN [raised |-> FALSE, selected_chunks |-> selected_chunks]
    ELSE LET chunk_text == GetRawText(chs[k])
         IN IF chunk_text.type # "str"
            THEN [raised |-> TRUE, selected_chunks |-> selected_chunks]
            ELSE LET token_estimate == Len(chunk_text.value) \div 4
                 IN IF total_tokens + token_estimate > budget
                       /\ selected_chunks # <<>>
                    THEN [raised |-> FALSE, selected_chunks |-> selected_chunks]
                    ELSE select_loop(chs, k + 1, budget,
                                     Append(selected_chunks, chs[k]),
                                     total_tokens + token_estimate)

\* returns (selected_chunks, num_chunks_used)
select_top_chunks(chs, budget) ==
    IF chs = <<>> THEN [chunks |-> <<>>, num_chunks_used |-> 0]
    ELSE LET r == select_loop(chs, 1, budget, <<>>, 0)
         IN IF r.raised
            THEN \* "Return a subset of chunks if selection fails"
                 LET safe_max == Min(3, Len(chs))
                 IN [chunks |-> SubSeq(chs, 1, safe_max),
                     num_chunks_used |-> safe_max]
            ELSE [chunks |-> r.selected_chunks,
                  num_chunks_used |-> Len(r.selected_chunks)]

\* the calls select_top_chunks is checked on
MaxCandidates == 4      \* length of the candidate list
MaxBudget == 2          \* max_tokens ranges over 0..MaxBudget

Filler(n) == [k \in 1..n |-> "x"]

\* raw_text values: absent, null, and texts worth 0, 1 and 2 tokens
RawTexts == {Missing, Null, Str(Filler(0)), Str(Filler(4)), Str(Filler(7)),
             Str(Filler(8))}

CandidateLists ==
    UNION {{[k \in 1..n |->
                [chunk_id |-> k, raw_text |-> f[k],
                 metadata |-> [source |-> <<"s">>, document_id |-> <<"d">>]]] :
               f \in [1..n -> RawTexts]} : n \in 0..MaxCandidates}

InitSelect ==
    /\ ranked_chunks \in CandidateLists
    /\ max_tokens \in 0..MaxBudget
    /\ top_chunks = <<>>
    /\ s_pc = "start"
    /\ DocIdle /\ QueryIdle /\ AggIdle /\ IngestIdle /\ FilterIdle /\ SplitIdle /\ WindowIdle /\ RetryIdle /\ RankIdle /\ SvcIdle /\ ParaIdle

\* top_chunks, num_chunks_used = select_top_chunks(ranked_chunks, max_tokens)
SelectTopChunks ==
    /\ s_pc = "start"
    /\ top_chunks' = select_top_chunks(ranked_chunks, max_tokens).chunks
    /\ s_pc' = "done"
    /\ UNCHANGED <<ranked_chunks, max_tokens>>
    /\ UNCHANGED <<docVars, queryVars, aggVars, ingestVars, filterVars, splitVars, windowVars, retryVars, rankVars, svcVars, paraVars>>

NextSelect == SelectTopChunks

SpecSelect == InitSelect /\ [][NextSelect]_vars

\* len(raw_text) // 4 summed over a chunk list; a chunk without a text
\* counts 0
RECURSIVE TokenEstimate(_)
TokenEstimate(chs) ==
    IF chs = <<>> THEN 0
    ELSE (IF Head(chs).raw_text.type = "str"
          THEN Len(Head(chs).raw_text.value) \div 4 ELSE 0)
         + TokenEstimate(Tail(chs))

\* C6: select_top_chunks returns at least one chunk whenever its input is
\* non-empty, and the summed token estimate of the returned chunks is at
\* most max_tokens unless exactly one chunk is returned, also for
\* candidates whose raw_text is missing or null.
C6_SelectionWithinBudget ==
    (s_pc = "done" /\ ranked_chunks # <<>>) =>
        /\ Len(top_chunks) >= 1
        /\ \/ TokenEstimate(top_chunks) <= max_tokens
           \/ Len(top_chunks) = 1


(***************************************************************************)
(* Candidate aggregation: document_service.get_context_for_project,        *)
(* get_context_for_project_v2 and book_service.get_context_from_book.      *)
(*                                                                         *)
(* A candidate is a row returned by the vector search: [chunk_id,          *)
(* raw_text, similarity, metadata].  book_service reads the same two       *)
(* things under the keys "id" and "content".                               *)
(***************************************************************************)
\* "for chunk in chunks_data.data: if not any(existing.get("chunk_id") ==
\*  chunk_id for existing in all_chunks): all_chunks.append(chunk)"
RECURSIVE add_avoiding_duplicates(_, _)
add_avoiding_duplicates(existing, data) ==
    IF data = <<>> THEN existing
    ELSE add_avoiding_duplicates(
             IF \E k \in 1..Len(existing) :
                    existing[k].chunk_id = Head(data).chunk_id
             THEN existing
             ELSE Append(existing, Head(data)),
             Tail(data))

\* item.get("raw_text") is truthy
HasText(item) == item.raw_text.type = "str" /\ item.raw_text.value # <<>>

\* "\n\n".join(item.get("raw_text", "") for item in all_chunks
\*             if item.get("raw_text"))
JoinRawTexts(chs) ==
    LET with_text == SelectSeq(chs, HasText)
    IN Join([k \in 1..Len(with_text) |-> with_text[k].raw_text.value],
            <<"\n", "\n">>)

\* sorted(chunks, key=similarity, reverse=True): stable, highest first
RECURSIVE InsertBySimilarity(_, _)
InsertBySimilarity(sorted, chunk) ==
    IF sorted = <<>> THEN <<chunk>>
    ELSE IF Head(sorted).similarity >= chunk.similarity
         THEN <<Head(sorted)>> \o InsertBySimilarity(Tail(sorted), chunk)
         ELSE <<chunk>> \o sorted

RECURSIVE rank_chunks_by_relevance(_)
rank_chunks_by_relevance(chs) ==
    IF chs = <<>> THEN <<>>
    ELSE InsertBySimilarity(
             rank_chunks_by_relevance(SubSeq(chs, 1, Len(chs) - 1)),
             chs[Len(chs)])

Txt_From == <<"-", "-", "-", " ", "F", "r", "o", "m", ":", " ">>
Txt_ID == <<" ", "(", "I", "D", ":", " ">>
Txt_Dashes == <<")", " ", "-", "-", "-", "\n">>

\* f"--- From: {source} (ID: {document_id}) ---\n{raw_text}"
FormattedChunk(chunk, raw_text) ==
    Txt_From \o chunk.metadata.source \o Txt_ID \o chunk.metadata.document_id
        \o Txt_Dashes \o raw_text

\* the loop of format_context_from_chunks; raised tells that
\* chunk.get("raw_text", "").strip() raised (raw_text is None)
RECURSIVE format_loop(_, _, _)
format_loop(chs, k, formatted_chunks) ==
    IF k > Len(chs) THEN [raised |-> FALSE, formatted_chunks |-> formatted_chunks]
    ELSE LET value == GetRawText(chs[k])
         IN IF value.type # "str"
            THEN [raised |-> TRUE, formatted_chunks |-> formatted_chunks]
            ELSE IF Strip(value.value) = <<>>
                 THEN format_loop(chs, k + 1, formatted_chunks)
                 ELSE format_loop(chs, k + 1,
                          Append(formatted_chunks,
                                 FormattedChunk(chs[k], Strip(value.value))))

format_context_from_chunks(chs) ==
    IF chs = <<>> THEN <<>>
    ELSE LET r == format_loop(chs, 1, <<>>)
         IN IF r.raised
            THEN \* "Return raw text concatenation as fallback"
                 JoinRawTexts(chs)
            ELSE Join(r.formatted_chunks, <<"\n", "\n">>)


DEFAULT_top_k == 5                  \* get_context_for_project(top_k=5)
CALLER_num_queries == 3             \* generate_search_queries(num_queries=3)
DEFAULT_select_max_tokens == 6000   \* select_top_chunks(max_tokens=6000)
FETCH_match_count == 20             \* fetch_document_chunks: "match_count": 20

MaxChunkIds == 3        \* rows in the store
MaxResultLen == 2       \* rows one search call returns

\* the rows of the store
StoredRow(i) ==
    [chunk_id |-> i,
     raw_text |-> Str(<<"t", ToString(i)>>),
     similarity |-> (i * 2) % 3,
     metadata |-> [source |-> <<"s">>, document_id |-> <<"d", ToString(i)>>]]

StoredRows == {StoredRow(i) : i \in 1..MaxChunkIds}

Data(rows) == [kind |-> "data", data |-> rows]

\* what supabase.rpc(...).execute() does: it raises, or it returns at most
\* match_count rows, no row twice
SearchOutcomes(match_count) ==
    {Raises} \cup
    {Data(rows) : rows \in
        {r \in SeqsUpTo(StoredRows, Min(match_count, MaxResultLen)) :
            \A j, k \in 1..Len(r) : j # k => r[j] # r[k]}}

RowSet(rows) == {rows[k] : k \in 1..Len(rows)}

\* get_context_for_project_v2 and
\* get_context_for_project_with_selected_documents_v2: the same statements,
\* the second with the fetch helpers that filter by document
V2 == {"v2", "v2_selected"}

\* the aggregators are called with use_enhanced_queries = True (the default)
InitAgg ==
    /\ aggregator \in {"project", "book"} \cup V2
    /\ top_k \in (IF aggregator \in V2 THEN {DEFAULT_top_k} ELSE {2, DEFAULT_top_k})
    /\ a_pc = "search"
    /\ qi = 0
    /\ all_chunks = <<>>
    /\ total_chunks_count = 0
    /\ retrieved = {}
    /\ failed_calls = 0
    /\ fanout = {}
    /\ synthesis_calls = 0
    /\ stages = <<>>
    /\ context = <<>>
    /\ original_query \in {Q_plain, Q_topic}
    /\ num_queries = CALLER_num_queries
    /\ model_reply \in {Raises, Reply(Join(<<Q_1, Q_2>>, <<"\n">>))}
    /\ search_queries = <<>>
    /\ q_pc = "start"
    /\ DocIdle /\ SelectIdle /\ IngestIdle /\ FilterIdle /\ SplitIdle /\ WindowIdle /\ RetryIdle /\ RankIdle /\ SvcIdle /\ ParaIdle

LoopRunning == q_pc = "done" /\ a_pc = "search" /\ qi < Len(search_queries)
LoopDone == q_pc = "done" /\ a_pc = "search" /\ qi = Len(search_queries)

\* one exception anywhere in get_context_for_project / get_context_from_book
\* ends the call in the outer "except Exception: return ''"
Abort ==
    /\ a_pc' = "done"
    /\ context' = <<>>
    /\ failed_calls' = failed_calls + 1
    /\ UNCHANGED <<aggregator, top_k, qi, all_chunks, total_chunks_count, retrieved>>

AddData(rows) ==
    /\ all_chunks' = add_avoiding_duplicates(all_chunks, rows)
    /\ total_chunks_count' = total_chunks_count + (Len(all_chunks') - Len(all_chunks))
    /\ retrieved' = retrieved \cup RowSet(rows)

\* get_context_for_project / get_context_from_book: one round of
\* "for search_query in search_queries"
SearchQuery ==
    /\ aggregator \in {"project", "book"}
    /\ LoopRunning
    /\ \E outcome \in SearchOutcomes(Max(2, top_k \div Len(search_queries))) :
          IF outcome.kind = "raises" THEN Abort /\ UNCHANGED fanout
          ELSE /\ AddData(outcome.data)
               /\ fanout' = fanout \cup RowSet(outcome.data)
               /\ qi' = qi + 1
               /\ UNCHANGED <<aggregator, top_k, a_pc, failed_calls, context>>
    /\ UNCHANGED synthesis_calls
    /\ UNCHANGED stages
    /\ UNCHANGED <<docVars, queryVars, selectVars, ingestVars, filterVars, splitVars, windowVars, retryVars, rankVars, svcVars, paraVars>>

\* "if total_chunks_count < top_k": the synthesis query
SynthesisQuery ==
    /\ aggregator \in {"project", "book"}
    /\ LoopDone
    /\ total_chunks_count < top_k
    /\ \E outcome \in SearchOutcomes(top_k - total_chunks_count) :
          IF outcome.kind = "raises" THEN Abort
          ELSE /\ AddData(outcome.data)
               /\ a_pc' = "join"
               /\ UNCHANGED <<aggregator, top_k, qi, failed_calls, context>>
    /\ synthesis_calls' = synthesis_calls + 1
    /\ UNCHANGED fanout
    /\ UNCHANGED stages
    /\ UNCHANGED <<docVars, queryVars, selectVars, ingestVars, filterVars, splitVars, windowVars, retryVars, rankVars, svcVars, paraVars>>

\* "Extract and join the text from the chunks" and return
JoinContext ==
    /\ aggregator \in {"project", "book"}
    /\ \/ a_pc = "join"
       \/ LoopDone /\ total_chunks_count >= top_k
    /\ context' = JoinRawTexts(all_chunks)
    /\ a_pc' = "done"
    /\ UNCHANGED <<aggregator, top_k, qi, all_chunks, total_chunks_count,
                   retrieved, failed_calls, fanout, synthesis_calls>>
    /\ UNCHANGED stages
    /\ UNCHANGED <<docVars, queryVars, selectVars, ingestVars, filterVars, splitVars, windowVars, retryVars, rankVars, svcVars, paraVars>>

\* fetch_document_chunks: the rows, and [] if the call raises
Fetched(outcome) == IF outcome.kind = "raises" THEN <<>> ELSE outcome.data

Fetch(outcome) ==
    /\ retrieved' = retrieved \cup RowSet(Fetched(outcome))
    /\ failed_calls' = failed_calls + (IF outcome.kind = "raises" THEN 1 ELSE 0)
    /\ total_chunks_count' = Len(all_chunks')
    /\ UNCHANGED <<aggregator, top_k, context>>

\* get_context_for_project_v2: one round of "for query in search_queries:
\* all_chunks.extend(fetch_document_chunks(...))"
FetchDocumentChunks ==
    /\ aggregator \in V2
    /\ LoopRunning
    /\ \E outcome \in SearchOutcomes(FETCH_match_count) :
          /\ all_chunks' = all_chunks \o Fetched(outcome)
          /\ Fetch(outcome)
          /\ stages' = Append(stages, [stage |-> "reformulated",
                                       produced |-> Len(Fetched(outcome))])
          /\ fanout' = fanout \cup RowSet(Fetched(outcome))
    /\ qi' = qi + 1
    /\ UNCHANGED <<a_pc, synthesis_calls>>
    /\ UNCHANGED <<docVars, queryVars, selectVars, ingestVars, filterVars, splitVars, windowVars, retryVars, rankVars, svcVars, paraVars>>

\* "if not all_chunks": the original query
FetchOriginal ==
    /\ aggregator \in V2
    /\ LoopDone
    /\ all_chunks = <<>>
    /\ \E outcome \in SearchOutcomes(FETCH_match_count) :
          /\ all_chunks' = Fetched(outcome)
          /\ Fetch(outcome)
          /\ stages' = Append(stages, [stage |-> "original",
                                       produced |-> Len(Fetched(outcome))])
    /\ a_pc' = "original"
    /\ UNCHANGED <<qi, fanout, synthesis_calls>>
    /\ UNCHANGED <<docVars, queryVars, selectVars, ingestVars, filterVars, splitVars, windowVars, retryVars, rankVars, svcVars, paraVars>>

\* a variant that searches the synthesis query whatever was found before
FetchSynthesis_always ==
    /\ aggregator \in V2
    /\ a_pc = "original"
    /\ \E outcome \in SearchOutcomes(FETCH_match_count) :
          /\ all_chunks' = Fetched(outcome)
          /\ Fetch(outcome)
          /\ stages' = Append(stages, [stage |-> "synthesis",
                                       produced |-> Len(Fetched(outcome))])
    /\ a_pc' = "synthesis"
    /\ synthesis_calls' = synthesis_calls + 1
    /\ UNCHANGED <<qi, fanout>>
    /\ UNCHANGED <<docVars, queryVars, selectVars, ingestVars, filterVars, splitVars, windowVars, retryVars, rankVars, svcVars, paraVars>>

\* "if not all_chunks": the synthesis query
FetchSynthesis ==
    /\ aggregator \in V2
    /\ a_pc = "original"
    /\ all_chunks = <<>>
    /\ \E outcome \in SearchOutcomes(FETCH_match_count) :
          /\ all_chunks' = Fetched(outcome)
          /\ Fetch(outcome)
          /\ stages' = Append(stages, [stage |-> "synthesis",
                                       produced |-> Len(Fetched(outcome))])
    /\ a_pc' = "synthesis"
    /\ synthesis_calls' = synthesis_calls + 1
    /\ UNCHANGED <<qi, fanout>>
    /\ UNCHANGED <<docVars, queryVars, selectVars, ingestVars, filterVars, splitVars, windowVars, retryVars, rankVars, svcVars, paraVars>>

\* "if not all_chunks": fetch_all_document_chunks
FetchAll ==
    /\ aggregator \in V2
    /\ a_pc = "synthesis"
    /\ all_chunks = <<>>
    /\ \E outcome \in SearchOutcomes(MaxChunkIds) :
          /\ all_chunks' = Fetched(outcome)
          /\ Fetch(outcome)
          /\ stages' = Append(stages, [stage |-> "all",
                                       produced |-> Len(Fetched(outcome))])
    /\ a_pc' = "all"
    /\ UNCHANGED <<qi, fanout, synthesis_calls>>
    /\ UNCHANGED <<docVars, queryVars, selectVars, ingestVars, filterVars, splitVars, windowVars, retryVars, rankVars, svcVars, paraVars>>

\* rank, select, format and return
AssembleContext ==
    /\ aggregator \in V2
    /\ \/ LoopDone /\ all_chunks # <<>>
       \/ a_pc \in {"original", "synthesis"} /\ all_chunks # <<>>
       \/ a_pc = "all"
    /\ context' =
           format_context_from_chunks(
               select_top_chunks(rank_chunks_by_relevance(all_chunks),
                                 DEFAULT_select_max_tokens).chunks)
    /\ a_pc' = "done"
    /\ UNCHANGED <<aggregator, top_k, qi, all_chunks, total_chunks_count,
                   retrieved, failed_calls, fanout, synthesis_calls>>
    /\ UNCHANGED stages
    /\ UNCHANGED <<docVars, queryVars, selectVars, ingestVars, filterVars, splitVars, windowVars, retryVars, rankVars, svcVars, paraVars>>

NextAgg ==
    \/ GenerateSearchQueries
    \/ SearchQuery
    \/ SynthesisQuery
    \/ JoinContext
    \/ FetchDocumentChunks
    \/ FetchOriginal
    \/ FetchSynthesis
    \/ FetchAll
    \/ AssembleContext

SpecAgg == InitAgg /\ [][NextAgg]_vars

\* C5: the candidate list the aggregator has built holds at most one
\* candidate per chunk_id.
C5_OneCandidatePerChunkId ==
    a_pc = "done" =>
        \A j, k \in 1..Len(all_chunks) :
            all_chunks[j].chunk_id = all_chunks[k].chunk_id => j = k

\* C9: if a search call raised during the aggregation, the candidates the
\* other search calls returned are present in the returned context.
C9_FailedCallContributesEmpty ==
    (a_pc = "done" /\ failed_calls >= 1) =>
        \A row \in retrieved : Contains(context, row.raw_text.value)

\* the chunk count the aggregator returns next to the context:
\* get_context_for_project returns the context alone (no count), v2 returns
\* num_chunks_used of select_top_chunks, get_context_from_book returns
\* len(relevant_chunks); every "return '', 0" gives 0
ReturnedCount ==
    IF (aggregator \notin V2 /\ failed_calls > 0) \/ all_chunks = <<>> THEN 0
    ELSE IF aggregator \in V2
         THEN select_top_chunks(rank_chunks_by_relevance(all_chunks),
                                DEFAULT_select_max_tokens).num_chunks_used
         ELSE Len(SelectSeq(all_chunks, HasText))

\* what the caller of the aggregator receives
ReturnValue ==
    IF aggregator = "project" THEN <<context>> ELSE <<context, ReturnedCount>>

\* what the caller receives when every search succeeds and finds nothing:
\* "if not all_chunks: return ''" / "return '', 0"
NoResultsValue ==
    IF aggregator = "project" THEN << <<>> >> ELSE << <<>>, 0 >>

\* C12: when a search call has raised, the value the aggregator returns
\* differs from the value it returns when the search finds no chunk.
C12_FailureDistinctFromNoResults ==
    (a_pc = "done" /\ failed_calls >= 1) => ReturnValue # NoResultsValue


\* the number of deduplicated candidates the fan-out queries accumulated
FanoutCount == Cardinality({row.chunk_id : row \in fanout})

\* every candidate a search returned is in the candidate list, once
MergedOnce ==
    /\ \A row \in retrieved :
           \E k \in 1..Len(all_chunks) : all_chunks[k].chunk_id = row.chunk_id
    /\ \A j, k \in 1..Len(all_chunks) :
           all_chunks[j].chunk_id = all_chunks[k].chunk_id => j = k

\* C15: in one aggregation the synthesis query is searched at most once,
\* it is searched exactly when the fan-out queries accumulated fewer than
\* top_k deduplicated candidates, and its results are merged into the
\* candidate list with the chunk_id deduplication.
C15_SynthesisWhenBelowTopK ==
    a_pc = "done" =>
        /\ synthesis_calls <= 1
        /\ synthesis_calls = 1 <=> FanoutCount < top_k
        /\ synthesis_calls = 1 => MergedOnce

\* C14: if some candidate of the ranked list has a non-empty text, the
\* context format_context_from_chunks makes of the chunks select_top_chunks
\* returns is not empty.
C14_ContextNotEmpty ==
    (s_pc = "done" /\ \E k \in 1..Len(ranked_chunks) : HasText(ranked_chunks[k]))
        => format_context_from_chunks(top_chunks) # <<>>

(***************************************************************************)
(* The selected-documents filter of document_service.py.  The same loop is *)
(* written five times:                                                     *)
(*   "main"      get_context_for_project_with_selected_documents, the loop *)
(*               over the search queries                                   *)
(*   "synthesis" the same function, the synthesis-query pass               *)
(*   "single"    the same function, the single-query pass                  *)
(*   "fetch"     fetch_document_chunks_from_selected_documents             *)
(*   "fetch_all" fetch_all_chunks_from_selected_documents                  *)
(* A row is [chunk_id, metadata |-> [document_id, source]]; a missing      *)
(* metadata field reads as the empty text.                                 *)
(***************************************************************************)
\* os.path.basename: what follows the last "/"
RECURSIVE basename(_)
basename(path) ==
    IF path = <<>> THEN <<>>
    ELSE IF path[Len(path)] = "/" THEN <<>>
    ELSE Append(basename(SubSeq(path, 1, Len(path) - 1)), path[Len(path)])

\* the "main", "fetch" and "fetch_all" loops have the basename branch
HasBasenameBranch(path) == path \in {"main", "fetch", "fetch_all"}

\* "for selected_id in selected_document_ids: ... is_match = True; break"
RECURSIVE partial_match(_, _, _, _, _)
partial_match(path, ids, k, document_id, source) ==
    IF k > Len(ids) THEN FALSE
    ELSE LET selected_id == ids[k]
         IN IF \/ document_id # <<>> /\ Contains(document_id, selected_id)
               \/ source # <<>> /\ Contains(source, selected_id)
            THEN TRUE
            ELSE IF document_id # <<>> /\ Contains(selected_id, document_id)
            THEN TRUE
            ELSE IF /\ HasBasenameBranch(path)
                    /\ document_id # <<>>
                    /\ basename(document_id) = basename(selected_id)
            THEN TRUE
            ELSE partial_match(path, ids, k + 1, document_id, source)

is_match(path, chunk, ids) ==
    LET document_id == chunk.metadata.document_id
        source == chunk.metadata.source
    IN IF document_id # <<>> /\ InSeq(document_id, ids) THEN TRUE
       ELSE IF source # <<>> /\ InSeq(source, ids) THEN TRUE
       ELSE partial_match(path, ids, 1, document_id, source)

\* the loops of get_context_for_project_with_selected_documents stop as
\* soon as top_k chunks are kept
BreaksEarly(path) == path \in {"main", "synthesis", "single"}

\* "for chunk in chunks_data.data"; kept is all_chunks / filtered_chunks
RECURSIVE filter_loop(_, _, _, _, _, _)
filter_loop(path, rows, k, ids, k_top, kept) ==
    IF k > Len(rows) THEN kept
    ELSE LET chunk == rows[k]
             kept_now ==
                 IF ~is_match(path, chunk, ids) THEN kept
                 ELSE IF path \in {"main", "synthesis"}
                      THEN add_avoiding_duplicates(kept, <<chunk>>)
                      ELSE Append(kept, chunk)
         IN IF BreaksEarly(path) /\ Len(kept_now) >= k_top
            THEN kept_now
            ELSE filter_loop(path, rows, k + 1, ids, k_top, kept_now)

MaxSelectedIds == 2     \* length of selected_document_ids
MaxFilterRows == 2      \* rows of one search response

Id_a == <<"a">>
Id_ab == <<"a", "b">>
Id_x_a == <<"x", "/", "a">>
Id_y_a == <<"y", "/", "a">>

\* identifiers: of a selected document, and stored in a row's metadata
\* (where the field may be missing)
SelectedIds == {Id_a, Id_ab, Id_x_a, Id_y_a}
StoredIds == SelectedIds \cup {<<>>}

FilterRow(i, document_id, source) ==
    [chunk_id |-> i, metadata |-> [document_id |-> document_id, source |-> source]]

\* search responses: rows with distinct chunk_ids
FilterResponses ==
    UNION {{[k \in 1..n |-> FilterRow(k, d[k], s[k])] :
               d \in [1..n -> StoredIds], s \in [1..n -> StoredIds]} :
           n \in 0..MaxFilterRows}

InitFilter ==
    /\ filter_path \in {"main", "synthesis", "single", "fetch", "fetch_all"}
    /\ selected_document_ids \in SeqsUpTo(SelectedIds, MaxSelectedIds) \ {<<>>}
    /\ response_data \in FilterResponses
    /\ filtered_chunks = <<>>
    /\ f_pc = "start"
    /\ DocIdle /\ QueryIdle /\ SelectIdle /\ AggIdle /\ IngestIdle /\ SplitIdle /\ WindowIdle /\ RetryIdle /\ RankIdle /\ SvcIdle /\ ParaIdle

\* one run of the filtering loop over one search response, top_k = 5
FilterChunks ==
    /\ f_pc = "start"
    /\ filtered_chunks' = filter_loop(filter_path, response_data, 1,
                                      selected_document_ids, DEFAULT_top_k, <<>>)
    /\ f_pc' = "done"
    /\ UNCHANGED <<filter_path, selected_document_ids, response_data>>
    /\ UNCHANGED <<docVars, queryVars, selectVars, aggVars, ingestVars, splitVars, windowVars, retryVars, rankVars, svcVars, paraVars>>

NextFilter == FilterChunks

SpecFilter == InitFilter /\ [][NextFilter]_vars

\* the three-tier match between one selected id and one stored identifier:
\* equal, one contains the other, or equal basenames
TierMatch(selected_id, stored) ==
    /\ stored # <<>>
    /\ \/ selected_id = stored
       \/ Contains(stored, selected_id)
       \/ Contains(selected_id, stored)
       \/ basename(selected_id) = basename(stored)

PassesFilter(chunk, ids) ==
    \E k \in 1..Len(ids) :
        \/ TierMatch(ids[k], chunk.metadata.document_id)
        \/ TierMatch(ids[k], chunk.metadata.source)

\* C13: a row of the search response is kept if and only if, for some
\* selected id, the id equals the row's document_id or source, one of the
\* two contains the other, or their basenames are equal.
C13_KeptIffTierMatch ==
    f_pc = "done" =>
        \A k \in 1..Len(response_data) :
            InSeq(response_data[k], filtered_chunks)
                <=> PassesFilter(response_data[k], selected_document_ids)


(***************************************************************************)
(* Ingestion: PDFEmbedder.embed_chunks / insert_into_supabase and          *)
(* document_service.store_pdf_content.  A document to ingest is            *)
(* [document_id, chunks]: its id and the texts of its chunks in order; a   *)
(* document_id of None is the empty text.  The store is the set of rows of *)
(* the sources table, chunk_id being its conflict key.                     *)
(***************************************************************************)
DigitChars == <<"0", "1", "2", "3", "4", "5", "6", "7", "8", "9">>

\* str(n) for n >= 0
RECURSIVE DecimalDigits(_)
DecimalDigits(n) ==
    IF n < 10 THEN <<DigitChars[n + 1]>>
    ELSE DecimalDigits(n \div 10) \o <<DigitChars[(n % 10) + 1]>>

Txt_doc == <<"d", "o", "c">>
Txt_unknown == <<"u", "n", "k", "n", "o", "w", "n">>
Txt_source == <<"s", "o", "u", "r", "c", "e", "_">>

\* x or default
OrElse(x, default) == IF x # <<>> THEN x ELSE default

\* f"{prefix}_{timestamp}_{i}"
FormatChunkId(prefix, timestamp, i) ==
    prefix \o <<"_">> \o DecimalDigits(timestamp) \o <<"_">> \o DecimalDigits(i)

\* embed_chunks: the records for the chunks, i counting from 0
embed_chunks(chunk_texts, document_id, timestamp) ==
    [k \in 1..Len(chunk_texts) |->
        [source_id |-> Txt_source \o OrElse(document_id, Txt_unknown)
                           \o <<"_">> \o DecimalDigits(timestamp),
         chunk_id |-> FormatChunkId(OrElse(document_id, Txt_doc), timestamp, k - 1),
         raw_text |-> chunk_texts[k],
         document_id |-> document_id]]

\* store_pdf_content: the payloads for the chunks, i counting from 0
store_pdf_payloads(chunk_texts, document_id, timestamp) ==
    [k \in 1..Len(chunk_texts) |->
        [source_id |-> Txt_source \o document_id
                           \o <<"_">> \o DecimalDigits(timestamp),
         chunk_id |-> FormatChunkId(document_id, timestamp, k - 1),
         raw_text |-> chunk_texts[k],
         document_id |-> document_id]]

\* supabase.table("sources").upsert(records, on_conflict="chunk_id")
Upsert(rows, records) ==
    {row \in rows : \A k \in 1..Len(records) : records[k].chunk_id # row.chunk_id}
        \cup {records[k] : k \in 1..Len(records)}

MaxClock == 2       \* seconds the clock may advance
MaxRuns == 3        \* ingestion runs

Doc_a == [document_id |-> <<"a">>, chunks |-> <<<<"c", "0">>, <<"c", "1">>>>]
Doc_b == [document_id |-> <<"b">>, chunks |-> <<<<"c", "0">>>>]
Doc_none == [document_id |-> <<>>, chunks |-> <<<<"c", "0">>>>]

InitIngest ==
    /\ clock = 0
    /\ store = {}
    /\ runs = <<>>
    /\ DocIdle /\ QueryIdle /\ SelectIdle /\ AggIdle /\ FilterIdle /\ SplitIdle /\ WindowIdle /\ RetryIdle /\ RankIdle /\ SvcIdle /\ ParaIdle

\* time passes
Tick ==
    /\ clock < MaxClock
    /\ clock' = clock + 1
    /\ UNCHANGED <<store, runs>>
    /\ UNCHANGED <<docVars, queryVars, selectVars, aggVars, filterVars, splitVars, windowVars, retryVars, rankVars, svcVars, paraVars>>

RunRecord(doc, records) ==
    [document_id |-> doc.document_id, timestamp |-> clock,
     chunk_ids |-> [k \in 1..Len(records) |-> records[k].chunk_id]]

\* PDFEmbedder: embed_chunks, then insert_into_supabase; a batch whose
\* upsert raises is logged and skipped
EmbedAndInsert ==
    /\ Len(runs) < MaxRuns
    /\ \E doc \in {Doc_a, Doc_b, Doc_none}, batch_raises \in BOOLEAN :
          LET embedded_chunks == embed_chunks(doc.chunks, doc.document_id, clock)
          IN /\ store' = IF batch_raises THEN store
                         ELSE Upsert(store, embedded_chunks)
             /\ runs' = Append(runs, RunRecord(doc, embedded_chunks))
    /\ UNCHANGED clock
    /\ UNCHANGED <<docVars, queryVars, selectVars, aggVars, filterVars, splitVars, windowVars, retryVars, rankVars, svcVars, paraVars>>

\* store_pdf_content: one upsert per chunk; the first upsert that raises
\* ends the call (stored chunks are the first `done` ones)
StorePdfContent ==
    /\ Len(runs) < MaxRuns
    /\ \E doc \in {Doc_a, Doc_b} : \E done \in 0..Len(doc.chunks) :
          LET payloads == store_pdf_payloads(doc.chunks, doc.document_id, clock)
          IN /\ store' = Upsert(store, SubSeq(payloads, 1, done))
             /\ runs' = Append(runs, RunRecord(doc, payloads))
    /\ UNCHANGED clock
    /\ UNCHANGED <<docVars, queryVars, selectVars, aggVars, filterVars, splitVars, windowVars, retryVars, rankVars, svcVars, paraVars>>

NextIngest ==
    \/ Tick
    \/ EmbedAndInsert
    \/ StorePdfContent

SpecIngest == InitIngest /\ [][NextIngest]_vars

\* C10: two ingestion runs of the same document assign the same chunk_id
\* to the chunk at each position, so the store holds at most one row per
\* position of a document.
C10_ReingestionReplacesRows ==
    /\ \A j, k \in 1..Len(runs) :
           (runs[j].document_id # <<>> /\ runs[j].document_id = runs[k].document_id)
               => runs[j].chunk_ids = runs[k].chunk_ids
    /\ \A doc \in {Doc_a, Doc_b} :
           Cardinality({row \in store : row.document_id = doc.document_id})
               <= Len(doc.chunks)


(***************************************************************************)
(* chunker3.py: split_into_paragraph_chunks.  The same loops as chunker4's *)
(* without the offsets.                                                    *)
(***************************************************************************)
chunker3_MAX_TOKENS_PER_CHUNK == 700

Chunk3(text, labels, sub_chunk) ==
    [text |-> text, part |-> labels.part, chapter |-> labels.chapter,
     section |-> labels.section, sub_chunk |-> sub_chunk]

\* a variant of the loop body that forgets the sentence that did not fit
sentence_step3_drops(sentence3, labels, st) ==
    IF st.sub_chunk_tokens + TokenCount(sentence3) <= chunker3_MAX_TOKENS_PER_CHUNK
    THEN [st EXCEPT !.sub_chunk_text = @ \o sentence3 \o <<" ">>,
                    !.sub_chunk_tokens = @ + TokenCount(sentence3)]
    ELSE [sub_chunk_text |-> <<>>,
          sub_chunk_tokens |-> 0,
          sub_chunk_count |-> st.sub_chunk_count + 1,
          chunks |-> IF Strip(st.sub_chunk_text) # <<>>
                     THEN Append(st.chunks,
                                 Chunk3(Strip(st.sub_chunk_text), labels,
                                        PartLabel(st.sub_chunk_count)))
                     ELSE st.chunks]

\* one round of "for sentence in sentences"
sentence_step3(sentence3, labels, st) ==
    IF st.sub_chunk_tokens + TokenCount(sentence3) <= chunker3_MAX_TOKENS_PER_CHUNK
    THEN [st EXCEPT !.sub_chunk_text = @ \o sentence3 \o <<" ">>,
                    !.sub_chunk_tokens = @ + TokenCount(sentence3)]
    ELSE [sub_chunk_text |-> sentence3 \o <<" ">>,
          sub_chunk_tokens |-> TokenCount(sentence3),
          sub_chunk_count |-> st.sub_chunk_count + 1,
          chunks |-> IF Strip(st.sub_chunk_text) # <<>>
                     THEN Append(st.chunks,
                                 Chunk3(Strip(st.sub_chunk_text), labels,
                                        PartLabel(st.sub_chunk_count)))
                     ELSE st.chunks]

\* the sentence loop and "Add the final sub-chunk if any text remains"
RECURSIVE sentence_loop3(_, _, _, _)
sentence_loop3(sentence_list, k, labels, st) ==
    IF k > Len(sentence_list)
    THEN IF Strip(st.sub_chunk_text) # <<>>
         THEN Append(st.chunks,
                     Chunk3(Strip(st.sub_chunk_text), labels,
                            IF st.sub_chunk_count > 1
                            THEN PartLabel(st.sub_chunk_count) ELSE None))
         ELSE st.chunks
    ELSE sentence_loop3(sentence_list, k + 1, labels,
                        sentence_step3(sentence_list[k], labels, st))

RECURSIVE paragraph_loop3(_, _, _, _)
paragraph_loop3(paragraphs, k, labels, out) ==
    IF k > Len(paragraphs) THEN out
    ELSE IF Strip(paragraphs[k]) = <<>>
    THEN paragraph_loop3(paragraphs, k + 1, labels, out)
    ELSE IF TokenCount(Strip(paragraphs[k])) <= chunker3_MAX_TOKENS_PER_CHUNK
    THEN paragraph_loop3(paragraphs, k + 1, labels,
                         Append(out, Chunk3(Strip(paragraphs[k]), labels, None)))
    ELSE paragraph_loop3(paragraphs, k + 1, labels,
            sentence_loop3(SplitSentences(Strip(paragraphs[k])), 1, labels,
                           [sub_chunk_text |-> <<>>,
                            sub_chunk_tokens |-> 0,
                            sub_chunk_count |-> 1,
                            chunks |-> out]))

split_into_paragraph_chunks3(text, labels) ==
    paragraph_loop3(SplitParagraphs(Strip(text)), 1, labels, <<>>)

(***************************************************************************)
(* The paragraph splitters run on one paragraph made of sentences of       *)
(* different token counts.                                                 *)
(***************************************************************************)
MaxSentences == 4

S_small == <<"a", ".">>                 \* 2 tokens
S_words == <<"a", " ", "b", "!">>       \* 3 tokens, with a blank inside
S_heavy == <<"w", ".">>                 \* more than half the ceiling
S_huge == <<"w", "w", "?">>             \* more than the ceiling

SentenceKinds == {S_small, S_words, S_heavy, S_huge}

Paragraphs ==
    {Join(ss, <<" ">>) : ss \in SeqsUpTo(SentenceKinds, MaxSentences) \ {<<>>}}

NoLabels == [part |-> None, chapter |-> None, section |-> None]

InitSplit ==
    /\ splitter \in {"chunker4", "chunker3"}
    /\ big_paragraph \in Paragraphs
    /\ sub_chunks = <<>>
    /\ sp_pc = "start"
    /\ DocIdle /\ QueryIdle /\ SelectIdle /\ AggIdle /\ IngestIdle /\ FilterIdle /\ WindowIdle /\ RetryIdle /\ RankIdle /\ SvcIdle /\ ParaIdle

\* chunker4: split_into_paragraph_chunks(text, part, chapter, section, 0, text)
SplitParagraph4 ==
    /\ sp_pc = "start"
    /\ splitter = "chunker4"
    /\ sub_chunks' = split_into_paragraph_chunks(big_paragraph, NoLabels, 0,
                                                 big_paragraph)
    /\ sp_pc' = "done"
    /\ UNCHANGED <<splitter, big_paragraph>>
    /\ UNCHANGED <<docVars, queryVars, selectVars, aggVars, ingestVars, filterVars, windowVars, retryVars, rankVars, svcVars, paraVars>>

\* chunker3: split_into_paragraph_chunks(text, part, chapter, section)
SplitParagraph3 ==
    /\ sp_pc = "start"
    /\ splitter = "chunker3"
    /\ sub_chunks' = split_into_paragraph_chunks3(big_paragraph, NoLabels)
    /\ sp_pc' = "done"
    /\ UNCHANGED <<splitter, big_paragraph>>
    /\ UNCHANGED <<docVars, queryVars, selectVars, aggVars, ingestVars, filterVars, windowVars, retryVars, rankVars, svcVars, paraVars>>

NextSplit ==
    \/ SplitParagraph4
    \/ SplitParagraph3

SpecSplit == InitSplit /\ [][NextSplit]_vars

Oversized == TokenCount(big_paragraph) > chunker4_MAX_TOKENS_PER_CHUNK

\* C17: when a paragraph is split into N >= 2 sub-chunks, the k-th emitted
\* sub-chunk carries the ordinal k, for k = 1..N: none is skipped or repeated,
\* whatever the sizes of the sentences.
C17_OrdinalsConsecutive ==
    (sp_pc = "done" /\ Oversized /\ Len(sub_chunks) >= 2) =>
        \A k \in 1..Len(sub_chunks) :
            SameLabel(sub_chunks[k].sub_chunk, PartLabel(k))

RECURSIVE SentencesOf(_)
SentencesOf(chs) ==
    IF chs = <<>> THEN <<>>
    ELSE SplitSentences(Head(chs).text) \o SentencesOf(Tail(chs))

\* C18: when an oversized paragraph is split by sentences, the sentences of
\* the emitted sub-chunks, read in emission order, are exactly the sentences
\* of the paragraph in order, and a sentence that alone exceeds the ceiling
\* is the whole text of one sub-chunk.
C18_NoSentenceLost ==
    (sp_pc = "done" /\ Oversized) =>
        /\ SentencesOf(sub_chunks) = SplitSentences(big_paragraph)
        /\ \A k \in 1..Len(SplitSentences(big_paragraph)) :
              TokenCount(SplitSentences(big_paragraph)[k])
                  > chunker4_MAX_TOKENS_PER_CHUNK
              => \E m \in 1..Len(sub_chunks) :
                    sub_chunks[m].text = SplitSentences(big_paragraph)[k]

\* a paragraph of four sentences, the second larger than the ceiling, has
\* been split into three sub-chunks
C18_NoSentenceLost_Witness ==
    /\ sp_pc = "done"
    /\ big_paragraph = Join(<<S_words, S_huge, S_small, S_heavy>>, <<" ">>)
    /\ Len(sub_chunks) = 3
    /\ sub_chunks[2].text = S_huge

(***************************************************************************)
(* The token-window chunkers: contextualize.py chunk_text_tokens and the   *)
(* loop of chunker.py process_table_data.  A token is a white-space        *)
(* separated word.                                                         *)
(***************************************************************************)
\* tokens[start:end]
TokenSlice(tokens, start, end) ==
    IF start >= Len(tokens) THEN <<>>
    ELSE SubSeq(tokens, start + 1, Min(end, Len(tokens)))

\* contextualize.py: the while loop of chunk_text_tokens
RECURSIVE token_windows(_, _, _, _)
token_windows(tokens, start, cfg, out) ==
    IF start >= Len(tokens) THEN out
    ELSE LET end == start + cfg.max_tokens
             chunk == Join(TokenSlice(tokens, start, end), <<" ">>)
         IN token_windows(tokens, Max(end - cfg.overlap_tokens, end), cfg,
                          IF chunk # <<>> THEN Append(out, chunk) ELSE out)

contextualize_chunk_text_tokens(text, cfg) ==
    token_windows(SplitWords(text), 0, cfg, <<>>)

\* "\n".join([" | ".join(row) for row in table['data']])
table_text(data) ==
    Join([k \in 1..Len(data) |-> Join(data[k], Txt_RowSep)], <<"\n">>)

\* chunker.py: the while loop of process_table_data; classes[n] is what
\* classify_chunk answers for the n-th chunk
RECURSIVE table_windows(_, _, _, _, _, _)
table_windows(tokens, start, cfg, table_id, classes, out) ==
    IF start >= Len(tokens) THEN out
    ELSE LET end == start + cfg.max_tokens
             chunk_str == Join(TokenSlice(tokens, start, end), <<" ">>)
         IN table_windows(tokens, Max(end - cfg.overlap_tokens, end), cfg,
                          table_id, classes,
                          IF chunk_str # <<>>
                          THEN Append(out, [text |-> chunk_str,
                                            classification |-> classes[Len(out) + 1],
                                            source |-> "table",
                                            table_id |-> table_id])
                          ELSE out)

process_table_data(table, cfg, classes) ==
    IF table.data = <<>> THEN <<>>
    ELSE table_windows(SplitWords(table_text(table.data)), 0, cfg,
                       table.table_id, classes, <<>>)

\* how many times the loop of process_table_data goes round
NumWindows(table, cfg) ==
    (Len(SplitWords(table_text(table.data))) + cfg.max_tokens - 1)
        \div cfg.max_tokens

MaxWindowTokens == 5     \* words of the text
MaxWindow == 3           \* max_tokens
MaxTableRows == 2
MaxRowCells == 2

WindowWords == {<<"a">>, <<"b">>}

WindowTexts ==
    {Join(ws, <<" ">>) : ws \in SeqsUpTo(WindowWords, MaxWindowTokens)}

WindowRows == SeqsUpTo(WindowWords, MaxRowCells) \ {<<>>}

WindowTables ==
    {[table_id |-> <<"1">>, data |-> d] : d \in SeqsUpTo(WindowRows, MaxTableRows)}

\* 0 < overlap_tokens < max_tokens
WindowConfigs ==
    {cfg \in [max_tokens : 2..MaxWindow, overlap_tokens : 1..MaxWindow] :
        cfg.overlap_tokens < cfg.max_tokens}

valid_classifications == {"qualitative", "quantitative", "mixed", "general"}

InitWindow ==
    /\ windower \in {"chunk_text_tokens", "process_table_data"}
    /\ w_config \in WindowConfigs
    /\ IF windower = "chunk_text_tokens"
       THEN w_text \in WindowTexts /\ w_table = None
       ELSE w_text = <<>> /\ w_table \in WindowTables
    /\ w_chunks = <<>>
    /\ w_pc = "start"
    /\ DocIdle /\ QueryIdle /\ SelectIdle /\ AggIdle /\ IngestIdle /\ FilterIdle /\ SplitIdle /\ RetryIdle /\ RankIdle /\ SvcIdle /\ ParaIdle

ChunkTextTokensWindow ==
    /\ w_pc = "start"
    /\ windower = "chunk_text_tokens"
    /\ w_chunks' = contextualize_chunk_text_tokens(w_text, w_config)
    /\ w_pc' = "done"
    /\ UNCHANGED <<windower, w_text, w_table, w_config>>
    /\ UNCHANGED <<docVars, queryVars, selectVars, aggVars, ingestVars, filterVars, splitVars, retryVars, rankVars, svcVars, paraVars>>

ProcessTableData ==
    /\ w_pc = "start"
    /\ windower = "process_table_data"
    /\ \E classes \in [1..NumWindows(w_table, w_config) -> valid_classifications] :
          w_chunks' = process_table_data(w_table, w_config, classes)
    /\ w_pc' = "done"
    /\ UNCHANGED <<windower, w_text, w_table, w_config>>
    /\ UNCHANGED <<docVars, queryVars, selectVars, aggVars, ingestVars, filterVars, splitVars, retryVars, rankVars, svcVars, paraVars>>

NextWindow ==
    \/ ChunkTextTokensWindow
    \/ ProcessTableData

SpecWindow == InitWindow /\ [][NextWindow]_vars

\* the tokens of the k-th returned chunk
WindowTokens(k) ==
    SplitWords(IF windower = "process_table_data" THEN w_chunks[k].text
               ELSE w_chunks[k])

\* C19: in the token-window chunker, with 0 < overlap_tokens < max_tokens,
\* every chunk after the first begins with the last overlap_tokens tokens of
\* the chunk before it.
C19_ChunksOverlap ==
    w_pc = "done" =>
        \A k \in 2..Len(w_chunks) :
            /\ Len(WindowTokens(k)) >= w_config.overlap_tokens
            /\ SubSeq(WindowTokens(k), 1, w_config.overlap_tokens)
                   = LastN(WindowTokens(k - 1), w_config.overlap_tokens)

(***************************************************************************)
(* The retry loops of the collaborator calls: utils.py get_raw_response,   *)
(* contextualize4.py RAGContextualizer._fetch_ollama_response and embed.py *)
(* get_embeddings.  Each is "for attempt in range(max_retries)" around one *)
(* request with a timeout.  r_log records, for every request posted, "ok"  *)
(* or what went wrong, and "sleep" for every cooldown.                     *)
(***************************************************************************)
MaxRetries == 4

embed_MAX_RETRIES == 3

RetryFunctions == {"get_raw_response", "_fetch_ollama_response", "get_embeddings"}

\* what goes wrong with a request: the exception classes told apart by the
\* handlers, and for get_embeddings a reply without an embedding
Failures(fn) ==
    IF fn = "get_raw_response" THEN {"RequestException", "Exception"}
    ELSE IF fn = "get_embeddings" THEN {"Exception", "no embedding"}
    ELSE {"Exception"}

\* the value returned once the last attempt has failed
Fallback(fn, failure) ==
    IF fn = "get_raw_response"
    THEN IF failure = "RequestException" THEN "fallback response"
         ELSE "Error: Unexpected error occurred during processing."
    ELSE IF fn = "get_embeddings" THEN "[]"
    ELSE "empty text"

\* the value returned when the loop body never ran
LoopExhausted(fn) ==
    IF fn = "get_raw_response" THEN "Error: Failed to generate response."
    ELSE IF fn = "get_embeddings" THEN "[]"
    ELSE "empty text"

InitRetry ==
    /\ retry_fn \in RetryFunctions
    /\ max_retries \in (IF retry_fn = "get_embeddings" THEN {embed_MAX_RETRIES}
                        ELSE 0..MaxRetries)
    /\ attempt = 0
    /\ r_pc = "top"
    /\ r_log = <<>>
    /\ r_result = None
    /\ DocIdle /\ QueryIdle /\ SelectIdle /\ AggIdle /\ IngestIdle /\ FilterIdle /\ SplitIdle /\ WindowIdle /\ RankIdle /\ SvcIdle /\ ParaIdle

\* range(max_retries) yields the first value of attempt
EnterLoop ==
    /\ r_pc = "top"
    /\ max_retries > 0
    /\ r_pc' = "post"
    /\ UNCHANGED <<retry_fn, max_retries, attempt, r_log, r_result>>
    /\ UNCHANGED <<docVars, queryVars, selectVars, aggVars, ingestVars, filterVars, splitVars, windowVars, rankVars, svcVars, paraVars>>

\* range(max_retries) is empty: the statement after the loop returns
SkipLoop ==
    /\ r_pc = "top"
    /\ max_retries = 0
    /\ r_result' = LoopExhausted(retry_fn)
    /\ r_pc' = "done"
    /\ UNCHANGED <<retry_fn, max_retries, attempt, r_log>>
    /\ UNCHANGED <<docVars, queryVars, selectVars, aggVars, ingestVars, filterVars, splitVars, windowVars, rankVars, svcVars, paraVars>>

\* the request succeeds and the call returns its reply
PostSucceeds ==
    /\ r_pc = "post"
    /\ r_log' = Append(r_log, "ok")
    /\ r_result' = "reply"
    /\ r_pc' = "done"
    /\ UNCHANGED <<retry_fn, max_retries, attempt>>
    /\ UNCHANGED <<docVars, queryVars, selectVars, aggVars, ingestVars, filterVars, splitVars, windowVars, rankVars, svcVars, paraVars>>

\* a variant that goes to the next request without the cooldown
PostFails_no_cooldown ==
    /\ r_pc = "post"
    /\ \E failure \in Failures(retry_fn) :
          /\ r_log' = Append(r_log, failure)
          /\ IF attempt < max_retries - 1
             THEN /\ attempt' = attempt + 1
                  /\ r_pc' = "post"
                  /\ UNCHANGED r_result
             ELSE /\ r_result' = Fallback(retry_fn, failure)
                  /\ r_pc' = "done"
                  /\ UNCHANGED attempt
    /\ UNCHANGED <<retry_fn, max_retries>>
    /\ UNCHANGED <<docVars, queryVars, selectVars, aggVars, ingestVars, filterVars, splitVars, windowVars, rankVars, svcVars, paraVars>>

\* the request fails (or times out after 30 s): the handler returns the
\* fallback after the last attempt and lets the loop go on otherwise
PostFails ==
    /\ r_pc = "post"
    /\ \E failure \in Failures(retry_fn) :
          /\ r_log' = Append(r_log, failure)
          /\ IF attempt < max_retries - 1
             THEN /\ attempt' = attempt + 1
                  /\ r_pc' = "sleep"
                  /\ UNCHANGED r_result
             ELSE /\ r_result' = Fallback(retry_fn, failure)
                  /\ r_pc' = "done"
                  /\ UNCHANGED attempt
    /\ UNCHANGED <<retry_fn, max_retries>>
    /\ UNCHANGED <<docVars, queryVars, selectVars, aggVars, ingestVars, filterVars, splitVars, windowVars, rankVars, svcVars, paraVars>>

\* time.sleep(cooldown) at the head of an iteration with attempt > 0, or
\* asyncio.sleep(COOLDOWN) at the end of a failed one that is not the last
Cooldown ==
    /\ r_pc = "sleep"
    /\ r_log' = Append(r_log, "sleep")
    /\ r_pc' = "post"
    /\ UNCHANGED <<retry_fn, max_retries, attempt, r_result>>
    /\ UNCHANGED <<docVars, queryVars, selectVars, aggVars, ingestVars, filterVars, splitVars, windowVars, rankVars, svcVars, paraVars>>

NextRetry ==
    \/ EnterLoop
    \/ SkipLoop
    \/ PostSucceeds
    \/ PostFails
    \/ Cooldown

SpecRetry == InitRetry /\ [][NextRetry]_vars

\* every step of the loop is one that ends: the request has a timeout and
\* the sleep a fixed length
SpecRetryFair == SpecRetry /\ WF_vars(NextRetry)

IsPost(entry) == entry # "sleep"

Attempts == Cardinality({k \in 1..Len(r_log) : IsPost(r_log[k])})

AtMostMaxRetries == Attempts <= max_retries

NoneAfterSuccess ==
    \A k \in 1..Len(r_log) : r_log[k] = "ok" => k = Len(r_log)

CooldownBetweenAttempts ==
    \A k \in 1..Len(r_log) :
        (IsPost(r_log[k]) /\ k > 1) => r_log[k - 1] = "sleep"

\* C20: a call of a retry loop posts at most max_retries requests, none
\* after the first that succeeds, sleeps the cooldown between every two
\* consecutive requests, and returns whatever succeeds and fails.
C20_RetryBoundedAndEnds ==
    /\ [](AtMostMaxRetries /\ NoneAfterSuccess /\ CooldownBetweenAttempts)
    /\ <>(r_pc = "done")

\* two requests failed and the third succeeded, a cooldown before each retry
C20_RetryBoundedAndEnds_Witness ==
    /\ r_pc = "done"
    /\ max_retries = 3
    /\ r_log = <<"RequestException", "sleep", "Exception", "sleep", "ok">>
    /\ r_result = "reply"

\* C21: get_raw_response returns from inside the retry loop, whatever the
\* configuration and the outcomes of the requests: the statement after the
\* loop, which returns "Error: Failed to generate response.", is never
\* reached.
C21_ReturnsInsideLoop ==
    (retry_fn = "get_raw_response" /\ r_pc = "done") =>
        /\ r_log # <<>>
        /\ r_result # LoopExhausted("get_raw_response")

(***************************************************************************)
(* document_service.rank_chunks_by_relevance on candidates whose           *)
(* similarity and embedding fields may be absent or null.  A similarity is *)
(* counted in tenths.  An embedding is described by what                   *)
(* ai.calculate_similarity looks at: its dimension, whether it is all      *)
(* zeros, and its cosine with the query embedding.                         *)
(***************************************************************************)
Float(tenths) == [type |-> "float", value |-> tenths]

Vector(dims, zero, cos) ==
    [type |-> "list", dims |-> dims, zero |-> zero, cos |-> cos]

QueryDims == 2

\* ai.calculate_similarity(query_embedding, embedding) for a non-empty
\* query embedding of QueryDims non-zero numbers
calculate_similarity(embedding) ==
    IF embedding.dims = 0 THEN Float(0)
    ELSE IF embedding.zero THEN Float(0)
    ELSE IF embedding.dims # QueryDims THEN Float(1)
    ELSE Float(embedding.cos)

\* "embedding" in chunk and chunk["embedding"]
HasEmbedding(chunk) == chunk.embedding.type = "list" /\ chunk.embedding.dims > 0

\* the body of "for chunk in chunks"
Scored(chunk) ==
    IF chunk.similarity.type # "missing" THEN chunk
    ELSE IF HasEmbedding(chunk)
    THEN [chunk EXCEPT !.similarity = calculate_similarity(chunk.embedding)]
    ELSE [chunk EXCEPT !.similarity = Float(1)]

\* sorted() compares the keys of a list of two or more: a None key raises
SortRaises(chs) ==
    /\ Len(chs) >= 2
    /\ \E k \in 1..Len(chs) : chs[k].similarity.type # "float"

SortKeys(chs) ==
    [k \in 1..Len(chs) |-> [chs[k] EXCEPT !.similarity = chs[k].similarity.value]]

\* rank_chunks_by_relevance with its except clause: the chunks, scored in
\* place as far as the loop got, come back unsorted when anything raised
rank_any_chunks(chs, embedder) ==
    IF chs = <<>> THEN <<>>
    ELSE IF embedder = "raises" THEN chs
    ELSE LET scored == [k \in 1..Len(chs) |-> Scored(chs[k])]
         IN IF SortRaises(scored) THEN scored
            ELSE IF Len(scored) = 1 THEN scored
            ELSE LET ranked == rank_chunks_by_relevance(SortKeys(scored))
                 IN [k \in 1..Len(ranked) |->
                        [ranked[k] EXCEPT !.similarity = Float(ranked[k].similarity)]]

MaxRanked == 3

Similarities == {Missing, Null, Float(2), Float(7)}

Embeddings == {Missing, Null, Vector(0, TRUE, 0), Vector(2, TRUE, 0),
               Vector(2, FALSE, 7), Vector(3, FALSE, 7)}

RankInputs ==
    UNION {{[k \in 1..n |-> [chunk_id |-> k, similarity |-> f[k][1],
                             embedding |-> f[k][2]]] :
               f \in [1..n -> Similarities \X Embeddings]} : n \in 0..MaxRanked}

InitRank ==
    /\ rk_chunks \in RankInputs
    /\ rk_embedder \in {"ok", "raises"}
    /\ rk_result = <<>>
    /\ rk_pc = "start"
    /\ DocIdle /\ QueryIdle /\ SelectIdle /\ AggIdle /\ IngestIdle /\ FilterIdle /\ SplitIdle /\ WindowIdle /\ RetryIdle /\ SvcIdle /\ ParaIdle

RankChunks ==
    /\ rk_pc = "start"
    /\ rk_result' = rank_any_chunks(rk_chunks, rk_embedder)
    /\ rk_pc' = "done"
    /\ UNCHANGED <<rk_chunks, rk_embedder>>
    /\ UNCHANGED <<docVars, queryVars, selectVars, aggVars, ingestVars, filterVars, splitVars, windowVars, retryVars, svcVars, paraVars>>

NextRank ==
    \/ RankChunks

SpecRank == InitRank /\ [][NextRank]_vars

RankedIsPermutation ==
    /\ Len(rk_result) = Len(rk_chunks)
    /\ \A k \in 1..Len(rk_chunks) :
          \E m \in 1..Len(rk_result) :
              /\ rk_result[m].chunk_id = k
              /\ rk_result[m].embedding = rk_chunks[k].embedding
              /\ rk_chunks[k].similarity.type = "float"
                    => rk_result[m].similarity = rk_chunks[k].similarity

RankedIsSorted ==
    /\ \A k \in 1..Len(rk_result) : rk_result[k].similarity.type = "float"
    /\ \A k, m \in 1..Len(rk_result) :
          k < m =>
              \/ rk_result[k].similarity.value > rk_result[m].similarity.value
              \/ /\ rk_result[k].similarity.value = rk_result[m].similarity.value
                 /\ rk_result[k].chunk_id < rk_result[m].chunk_id

\* C22: rank_chunks_by_relevance returns a permutation of its input in
\* order of non-increasing similarity, ties in input order; a similarity a
\* candidate already carries is kept and every candidate without one gets
\* one, also when a similarity or embedding field is present but null.
C22_RankedStableDescending ==
    (rk_pc = "done" /\ rk_embedder = "ok") =>
        RankedIsPermutation /\ RankedIsSorted

(***************************************************************************)
(* The order of the retrieval stages of the v2 aggregators                 *)
(***************************************************************************)
StageRank(stage) ==
    IF stage = "reformulated" THEN 1
    ELSE IF stage = "original" THEN 2
    ELSE IF stage = "synthesis" THEN 3
    ELSE 4

\* C23: in get_context_for_project_v2 and its selected-documents variant the
\* stages run in the order reformulated queries, original query, synthesis
\* query, unfiltered fetch; a later stage runs only if every earlier stage
\* produced no chunks, and no stage runs after one that produced chunks.
C23_StagesInOrder ==
    aggregator \in V2 =>
        \A j \in 1..Len(stages) :
            /\ StageRank(stages[j].stage) > 1 =>
                  \E i \in 1..(j - 1) :
                      StageRank(stages[i].stage) = StageRank(stages[j].stage) - 1
            /\ \A i \in 1..(j - 1) :
                  /\ StageRank(stages[i].stage) <= StageRank(stages[j].stage)
                  /\ StageRank(stages[i].stage) = StageRank(stages[j].stage)
                        => stages[j].stage = "reformulated"
                  /\ StageRank(stages[i].stage) < StageRank(stages[j].stage)
                        => stages[i].produced = 0

\* the selected-documents variant went through all four stages, and the
\* last one found chunks
C23_StagesInOrder_Witness ==
    /\ aggregator = "v2_selected"
    /\ a_pc = "done"
    /\ Len(stages) >= 4
    /\ stages[Len(stages)].stage = "all"
    /\ stages[Len(stages)].produced >= 1
    /\ stages[Len(stages) - 1].stage = "synthesis"
    /\ stages[Len(stages) - 2].stage = "original"

(***************************************************************************)
(* One request to /ingest: routes.ingest_pdf, which calls                  *)
(* PDFIngestionService.ingest_pdf, which calls PDFEmbedder.process and     *)
(* insert_into_supabase.  The collaborators (parser, text generation,      *)
(* embedding, store) either answer or raise.  A project_id is None or an   *)
(* integer; a custom_document_name is None or a name.                      *)
(***************************************************************************)
batch_size == 50

MaxIngestBatches == 2

ChunkCounts ==
    {0} \cup UNION {{(k - 1) * batch_size + 1, k * batch_size} :
                        k \in 1..MaxIngestBatches}

Requests ==
    [pdf : BOOLEAN,
     process_type : {"full", "parse_only"},
     project_id : {None, "0", "1"},
     custom_document_name : {None, "name"},
     simple_mode : BOOLEAN]

\* "if project_id:"
Truthy(project_id) == project_id \notin {None, "0"}

InitSvc ==
    /\ sv_request \in Requests
    /\ sv_pc = "start"
    /\ sv_raised = 0
    /\ sv_failed = {}
    /\ sv_num_chunks = 0
    /\ sv_batches = <<>>
    /\ sv_insert_result = FALSE
    /\ sv_success = FALSE
    /\ sv_result = NoResult
    /\ sv_http = 0
    /\ DocIdle /\ QueryIdle /\ SelectIdle /\ AggIdle /\ IngestIdle /\ FilterIdle /\ SplitIdle /\ WindowIdle /\ RetryIdle /\ RankIdle /\ ParaIdle

\* "raise HTTPException(status_code=...)" inside the route's try: the
\* "except Exception" of routes.py:426 catches it and raises status 500
RouteRaises(status_code) ==
    /\ sv_raised' = status_code
    /\ sv_http' = 500
    /\ sv_pc' = "done"

\* "Check if the file is a PDF"; int(project_id) of an integer never fails
RouteCheckFile ==
    /\ sv_pc = "start"
    /\ IF ~sv_request.pdf
       THEN RouteRaises(400)
       ELSE sv_pc' = "parse" /\ UNCHANGED <<sv_raised, sv_http>>
    /\ UNCHANGED <<sv_request, sv_failed, sv_num_chunks, sv_batches,
                   sv_insert_result, sv_success, sv_result>>
    /\ UNCHANGED <<docVars, queryVars, selectVars, aggVars, ingestVars, filterVars, splitVars, windowVars, retryVars, rankVars, paraVars>>

\* the route parses the file and asks for a summary
RouteParse ==
    /\ sv_pc = "parse"
    /\ \E outcome \in {"ok", "raises"} :
          IF outcome = "raises"
          THEN /\ sv_failed' = sv_failed \cup {"summary"}
               /\ sv_http' = 500
               /\ sv_pc' = "done"
          ELSE /\ sv_pc' = "dispatch"
               /\ UNCHANGED <<sv_failed, sv_http>>
    /\ UNCHANGED <<sv_request, sv_raised, sv_num_chunks, sv_batches,
                   sv_insert_result, sv_success, sv_result>>
    /\ UNCHANGED <<docVars, queryVars, selectVars, aggVars, ingestVars, filterVars, splitVars, windowVars, retryVars, rankVars, paraVars>>

\* 'if process_type == "full": ... else: raise HTTPException(400, ...)'
RouteDispatch ==
    /\ sv_pc = "dispatch"
    /\ IF sv_request.process_type = "full"
       THEN sv_pc' = "ingest" /\ UNCHANGED <<sv_raised, sv_http>>
       ELSE RouteRaises(400)
    /\ UNCHANGED <<sv_request, sv_failed, sv_num_chunks, sv_batches,
                   sv_insert_result, sv_success, sv_result>>
    /\ UNCHANGED <<docVars, queryVars, selectVars, aggVars, ingestVars, filterVars, splitVars, windowVars, retryVars, rankVars, paraVars>>

\* the dict of the "except Exception" of ingest_pdf
ErrorResult == [status |-> "error", chunks_created |-> 0, chunks_embedded |-> 0]

\* ingest_pdf: "1. Parse PDF" and "2. Chunk the parsed content"
IngestParseAndChunk ==
    /\ sv_pc = "ingest"
    /\ \/ /\ sv_failed' = sv_failed \cup {"parse"}
          /\ sv_result' = ErrorResult
          /\ sv_pc' = "respond"
          /\ UNCHANGED sv_num_chunks
       \/ /\ sv_num_chunks' \in ChunkCounts
          /\ sv_pc' = "process"
          /\ UNCHANGED <<sv_failed, sv_result>>
    /\ UNCHANGED <<sv_request, sv_raised, sv_batches, sv_insert_result,
                   sv_success, sv_http>>
    /\ UNCHANGED <<docVars, queryVars, selectVars, aggVars, ingestVars, filterVars, splitVars, windowVars, retryVars, rankVars, paraVars>>

\* PDFEmbedder.process up to the call of insert_into_supabase: no chunks
\* return False, and so does an exception of embed_chunks
ProcessEmbed ==
    /\ sv_pc = "process"
    /\ IF sv_num_chunks = 0
       THEN /\ sv_success' = FALSE
            /\ sv_pc' = "sources"
            /\ UNCHANGED sv_failed
       ELSE \E outcome \in {"ok", "raises"} :
               IF outcome = "raises"
               THEN /\ sv_failed' = sv_failed \cup {"embed"}
                    /\ sv_success' = FALSE
                    /\ sv_pc' = "sources"
               ELSE /\ sv_pc' = "insert"
                    /\ UNCHANGED <<sv_failed, sv_success>>
    /\ UNCHANGED <<sv_request, sv_raised, sv_num_chunks, sv_batches,
                   sv_insert_result, sv_result, sv_http>>
    /\ UNCHANGED <<docVars, queryVars, selectVars, aggVars, ingestVars, filterVars, splitVars, windowVars, retryVars, rankVars, paraVars>>

\* len(range(0, len(embedded_chunks), batch_size))
NumBatches == (sv_num_chunks + batch_size - 1) \div batch_size

UpsertOutcomes == {"ok", "unexpected", "error", "raises"}

\* insert_into_supabase: one round of the batch loop.  A response with an
\* error returns False; an exception is logged and the loop goes on
UpsertBatch ==
    /\ sv_pc = "insert"
    /\ Len(sv_batches) < NumBatches
    /\ \E outcome \in UpsertOutcomes :
          /\ sv_batches' = Append(sv_batches, outcome)
          /\ IF outcome = "error"
             THEN sv_insert_result' = FALSE /\ sv_pc' = "verify"
             ELSE UNCHANGED <<sv_insert_result, sv_pc>>
    /\ UNCHANGED <<sv_request, sv_raised, sv_failed, sv_num_chunks, sv_success,
                   sv_result, sv_http>>
    /\ UNCHANGED <<docVars, queryVars, selectVars, aggVars, ingestVars, filterVars, splitVars, windowVars, retryVars, rankVars, paraVars>>

\* insert_into_supabase: the loop is over, "return True"
InsertReturnsTrue ==
    /\ sv_pc = "insert"
    /\ Len(sv_batches) = NumBatches
    /\ sv_insert_result' = TRUE
    /\ sv_pc' = "verify"
    /\ UNCHANGED <<sv_request, sv_raised, sv_failed, sv_num_chunks, sv_batches,
                   sv_success, sv_result, sv_http>>
    /\ UNCHANGED <<docVars, queryVars, selectVars, aggVars, ingestVars, filterVars, splitVars, windowVars, retryVars, rankVars, paraVars>>

\* PDFEmbedder.process: the verification step and the return
ProcessVerify ==
    /\ sv_pc = "verify"
    /\ IF sv_insert_result /\ sv_request.project_id # None
       THEN \E verification \in {"found", "found by source_id", "not found", "raises"} :
               sv_success' = IF verification \in {"found", "found by source_id"}
                             THEN TRUE ELSE sv_insert_result
       ELSE sv_success' = sv_insert_result
    /\ sv_pc' = "sources"
    /\ UNCHANGED <<sv_request, sv_raised, sv_failed, sv_num_chunks, sv_batches,
                   sv_insert_result, sv_result, sv_http>>
    /\ UNCHANGED <<docVars, queryVars, selectVars, aggVars, ingestVars, filterVars, splitVars, windowVars, retryVars, rankVars, paraVars>>

\* source_id is assigned under "if project_id:" only, and read when
\* custom_document_name is set
SourceIdUnbound ==
    /\ sv_request.custom_document_name # None
    /\ ~Truthy(sv_request.project_id)

\* ingest_pdf: "4. Update the project's sources list" and the returns
IngestReturn ==
    /\ sv_pc = "sources"
    /\ sv_result' =
          IF SourceIdUnbound THEN ErrorResult
          ELSE IF ~sv_success
          THEN [status |-> "error", chunks_created |-> sv_num_chunks,
                chunks_embedded |-> 0]
          ELSE [status |-> "success", chunks_created |-> sv_num_chunks,
                chunks_embedded |-> sv_num_chunks]
    /\ sv_pc' = "respond"
    /\ UNCHANGED <<sv_request, sv_raised, sv_failed, sv_num_chunks, sv_batches,
                   sv_insert_result, sv_success, sv_http>>
    /\ UNCHANGED <<docVars, queryVars, selectVars, aggVars, ingestVars, filterVars, splitVars, windowVars, retryVars, rankVars, paraVars>>

\* the route answers: the simple text, or the result with the project's
\* sources, whose fetch may raise
RouteRespond ==
    /\ sv_pc = "respond"
    /\ IF ~sv_request.simple_mode /\ Truthy(sv_request.project_id)
       THEN \E outcome \in {"ok", "raises"} :
               /\ sv_http' = IF outcome = "ok" THEN 200 ELSE 500
               /\ sv_failed' = IF outcome = "ok" THEN sv_failed
                               ELSE sv_failed \cup {"sources"}
       ELSE sv_http' = 200 /\ UNCHANGED sv_failed
    /\ sv_pc' = "done"
    /\ UNCHANGED <<sv_request, sv_raised, sv_num_chunks, sv_batches,
                   sv_insert_result, sv_success, sv_result>>
    /\ UNCHANGED <<docVars, queryVars, selectVars, aggVars, ingestVars, filterVars, splitVars, windowVars, retryVars, rankVars, paraVars>>

NextSvc ==
    \/ RouteCheckFile
    \/ RouteParse
    \/ RouteDispatch
    \/ IngestParseAndChunk
    \/ ProcessEmbed
    \/ UpsertBatch
    \/ InsertReturnsTrue
    \/ ProcessVerify
    \/ IngestReturn
    \/ RouteRespond

SpecSvc == InitSvc /\ [][NextSvc]_vars

\* C24: a request whose filename does not end in .pdf, or whose
\* process_type is not "full", is answered with status 400, the status of
\* the HTTPException raised for it, and not with 500.
C24_RejectedWith400 ==
    (sv_pc = "done" /\ sv_raised = 400) => sv_http = 400

Returned == sv_result.status # "none"

AllStagesSucceeded ==
    /\ sv_failed \cap {"parse", "embed"} = {}
    /\ sv_num_chunks >= 1
    /\ Len(sv_batches) = NumBatches
    /\ \A k \in 1..Len(sv_batches) : sv_batches[k] = "ok"

\* C27: ingest_pdf returns status "success" whenever parsing, chunking and
\* embedding and storing have all succeeded, whatever the project_id (None,
\* 0 or positive) and whether or not a custom_document_name is given.
C27_SuccessWhenAllSucceed ==
    (Returned /\ AllStagesSucceeded) => sv_result.status = "success"

\* C28: ingest_pdf reports "success" with chunks_embedded equal to
\* chunks_created only if the store accepted every batch upsert: a batch
\* that raises or returns an error makes the report "error" with
\* chunks_embedded 0.
C28_SuccessMeansStored ==
    Returned =>
        /\ (sv_result.status = "success"
               /\ sv_result.chunks_embedded = sv_result.chunks_created)
              => \A k \in 1..Len(sv_batches) :
                     sv_batches[k] \notin {"raises", "error"}
        /\ (\E k \in 1..Len(sv_batches) : sv_batches[k] \in {"raises", "error"})
              => sv_result.status = "error" /\ sv_result.chunks_embedded = 0

(***************************************************************************)
(* The size of the context of get_context_for_project and                  *)
(* get_context_from_book                                                   *)
(***************************************************************************)
\* the stored chunks whose text is in the returned context
ChunksInContext ==
    Cardinality({row \in StoredRows : Contains(context, row.raw_text.value)})

\* C25: the number of chunks placed in the returned context never exceeds
\* top_k, whatever the number of search queries and the rows each search
\* returns.
C25_ContextWithinTopK ==
    (a_pc = "done" /\ aggregator \in {"project", "book"}) =>
        ChunksInContext <= top_k

(***************************************************************************)
(* The indices of the chunks of chunker4                                   *)
(***************************************************************************)
\* the range of the chunk lies in the concatenated text and holds the
\* chunk's text
RangeHoldsText(chunk) ==
    /\ 0 <= chunk.start_index
    /\ chunk.start_index < chunk.end_index
    /\ chunk.end_index <= Len(full_text)
    /\ SubSeq(full_text, chunk.start_index + 1, chunk.end_index) = chunk.text

\* C26: every chunk chunker4 makes of a run has
\* 0 <= start_index < end_index <= the length of the concatenated text, and
\* the concatenated text at [start_index, end_index) is the chunk's text.
C26_RangeHoldsChunkText ==
    (impl = "chunker4" /\ pc = "tables") =>
        \A r \in 1..Len(sections) :
            \A k \in 1..Len(RunChunks(sections[r])) :
                RangeHoldsText(RunChunks(sections[r])[k])

(***************************************************************************)
(* The chunk count get_context_for_project_v2 returns with the context     *)
(***************************************************************************)
\* the number of chunks whose text format_context_from_chunks puts in the
\* context: the formatted chunks, or on the fallback path the chunks with a
\* text
IncludedCount(chs) ==
    IF chs = <<>> THEN 0
    ELSE LET r == format_loop(chs, 1, <<>>)
         IN IF r.raised THEN Len(SelectSeq(chs, HasText))
            ELSE Len(r.formatted_chunks)

\* C29: the chunk count returned with the context equals the number of
\* chunks whose text is in the context, and it is 0 when the context is
\* empty.
C29_CountIsChunksIncluded ==
    s_pc = "done" =>
        LET num_chunks_used ==
                select_top_chunks(ranked_chunks, max_tokens).num_chunks_used
        IN /\ num_chunks_used = IncludedCount(top_chunks)
           /\ format_context_from_chunks(top_chunks) = <<>> => num_chunks_used = 0

(***************************************************************************)
(* create_contextual_chunks on one section, one round of                   *)
(* "while i < len(paragraph_indices)" at a time.  A paragraph is short     *)
(* (2 tokens), at least as large as the overlap (400), larger than a chunk *)
(* (1600) or blank; the "SECTION: name" line is short, larger than the     *)
(* overlap, or larger than a chunk.                                        *)
(***************************************************************************)
MaxParagraphs == 3

ParagraphKinds == {<<"a", "b">>, <<"w">>, <<"w", "w", "w", "w">>, <<" ">>}

SectionNames == {<<"A", "b">>, <<"A", "w">>, <<"A", "w", "w", "w", "w">>}

WindowSections ==
    {[name |-> name, text |-> Join(ps, <<"\n", "\n">>), start_index |-> 0] :
        name \in SectionNames,
        ps \in SeqsUpTo(ParagraphKinds, MaxParagraphs) \ {<<>>}}

\* the state at "i = 0": the section is split into paragraphs and their
\* positions are tracked; a section without paragraphs is skipped
\* ("if not paragraphs: continue")
InitPara ==
    /\ pw_section \in WindowSections
    /\ pw_paragraph_indices =
           (IF SectionParagraphs(pw_section) = <<>> THEN <<>>
            ELSE paragraph_positions(SectionParagraphs(pw_section), 1,
                                     pw_section, 0, <<>>))
    /\ pw_i = 0
    /\ pw_chunks = <<>>
    /\ pw_pc = IF SectionParagraphs(pw_section) = <<>> THEN "done" ELSE "loop"
    /\ DocIdle /\ QueryIdle /\ SelectIdle /\ AggIdle /\ IngestIdle /\ FilterIdle /\ SplitIdle /\ WindowIdle /\ RetryIdle /\ RankIdle /\ SvcIdle

\* the window the inner loop fills from pw_i
FilledWindow ==
    add_paragraphs(pw_paragraph_indices, pw_i,
                   TokenCount(SectionHeaderText(pw_section.name)),
                   SectionHeaderText(pw_section.name), None)

\* one round of the loop with "if j > i": the chunk is appended and the
\* window slides
EmitWindow ==
    /\ pw_pc = "loop"
    /\ pw_i < Len(pw_paragraph_indices)
    /\ FilledWindow.j > pw_i
    /\ LET r == window_round(pw_paragraph_indices, pw_i, pw_section.name)
       IN pw_chunks' = Append(pw_chunks, r.chunk) /\ pw_i' = r.i
    /\ UNCHANGED <<pw_section, pw_paragraph_indices, pw_pc>>
    /\ UNCHANGED <<docVars, queryVars, selectVars, aggVars, ingestVars, filterVars, splitVars, windowVars, retryVars, rankVars, svcVars>>

\* one round of the loop with j = i: "force add the current one and move on"
ForceAddParagraph ==
    /\ pw_pc = "loop"
    /\ pw_i < Len(pw_paragraph_indices)
    /\ FilledWindow.j <= pw_i
    /\ LET r == window_round(pw_paragraph_indices, pw_i, pw_section.name)
       IN pw_chunks' = Append(pw_chunks, r.chunk) /\ pw_i' = r.i
    /\ UNCHANGED <<pw_section, pw_paragraph_indices, pw_pc>>
    /\ UNCHANGED <<docVars, queryVars, selectVars, aggVars, ingestVars, filterVars, splitVars, windowVars, retryVars, rankVars, svcVars>>

\* "while i < len(paragraph_indices)" is false
WindowsDone ==
    /\ pw_pc = "loop"
    /\ pw_i >= Len(pw_paragraph_indices)
    /\ pw_pc' = "done"
    /\ UNCHANGED <<pw_section, pw_paragraph_indices, pw_i, pw_chunks>>
    /\ UNCHANGED <<docVars, queryVars, selectVars, aggVars, ingestVars, filterVars, splitVars, windowVars, retryVars, rankVars, svcVars>>

NextPara ==
    \/ EmitWindow
    \/ ForceAddParagraph
    \/ WindowsDone

SpecPara == InitPara /\ [][NextPara]_vars

\* the loop is a sequential program: a round that can run, runs
SpecParaFair == SpecPara /\ WF_vars(NextPara)

\* every paragraph of the section has a position, and a chunk holds it
EveryParagraphInAChunk ==
    /\ Len(pw_paragraph_indices) = Len(SectionParagraphs(pw_section))
    /\ \A k \in 1..Len(pw_paragraph_indices) :
           \E c \in 1..Len(pw_chunks) :
               /\ pw_chunks[c].paragraph_range[1] <= k
               /\ k <= pw_chunks[c].paragraph_range[2]
               /\ Contains(pw_chunks[c].text, Strip(pw_paragraph_indices[k].text))

\* a round of the loop leaves i larger than it found it
WindowStartIncreases == pw_i' # pw_i => pw_i' > pw_i

RoundMoves == (pw_chunks' # pw_chunks) => pw_i' > pw_i

\* C30: create_contextual_chunks terminates for every section and every
\* sequence of paragraph sizes, the window start growing in every round of
\* the loop, and every non-empty paragraph of the section is in one of the
\* chunks it has made.
C30_TerminatesAndCovers ==
    /\ [](pw_pc = "done" => EveryParagraphInAChunk)
    /\ [][WindowStartIncreases /\ RoundMoves]_vars
    /\ <>(pw_pc = "done")

C30_TerminatesAndCovers_Witness ==
    /\ pw_pc = "done"
    /\ Len(pw_paragraph_indices) = MaxParagraphs
    /\ Len(pw_chunks) >= 2
    /\ \E c \in 1..Len(pw_chunks) :
           pw_chunks[c].paragraph_range[2] > pw_chunks[c].paragraph_range[1]
    /\ \E c \in 1..(Len(pw_chunks) - 1) :
           pw_chunks[c + 1].paragraph_range[1] <= pw_chunks[c].paragraph_range[2]

=============================================================================
